---- MODULE Spec2Model ----
(***************************************************************************)
(* flowgen: the FlowGenerator engine and the tools built on it.            *)
(*                                                                         *)
(* flowdump: generator workers push enhanced flow records into one shared  *)
(* ThreadSafeQueue; a single FlowCollector pops them, groups them in a     *)
(* TimestampChunker, sorts each chunk and writes it to the output stream.  *)
(* flowstats: worker threads fill private buffers and publish m_done.      *)
(*                                                                         *)
(* Several specifications are defined over the same variables; the         *)
(* variables a specification does not use keep their initial value:        *)
(*   Spec           the whole pipeline of flowdump's main()                *)
(*   SpecChunker    the TimestampChunker driven directly through its API   *)
(*   SpecS5         the TimestampChunker fed the scripted insertions       *)
(*   SpecEngine     one FlowGenerator driven through its public interface  *)
(*   SpecStats      the worker threads of a flowstats subcommand           *)
(***************************************************************************)
EXTENDS Integers, Sequences, FiniteSets, TLC

(***************************************************************************)
(* Bounds                                                                  *)
(***************************************************************************)
\* stream ids of the generator threads (stream_id = i + 1 in main)
Workers == {1, 2}
\* opts.num_threads, handed to the collector as num_generators
NumThreads == Cardinality(Workers)
\* flows each worker generates (opts.flows_per_thread)
MaxFlows == 3
\* number of add_flow calls of the chunker driver
MaxAdds == 5

\* inter-arrival quanta, chunk durations and start timestamps of the pipeline
Deltas == {1, 2}
PipeChunkDurations == {2}
StartTimestamps == {2}
\* timestamps and chunk durations offered to the chunker driver
Timestamps == {0, 5, 10, 12, 25}
ChunkDurations == {10}

VARIABLES
    \* ---- configuration, fixed after Init
    init_ok,                 \* result of FlowGenerator::initialize(worker_config)
    inter_arrival_time_ns_,  \* FlowGenerator::inter_arrival_time_ns_
    start_timestamp_ns_,     \* FlowGenerator::start_timestamp_ns_
    format_,                 \* FlowFormatter::format_
    sort_field_,             \* FlowFormatter::sort_field_
    suppress_header_,        \* FlowCollector::suppress_header_
    \* ---- generator threads
    worker_pc,               \* position of each generator thread
    flow_count_,             \* FlowGenerator::flow_count_ of each worker
    current_timestamp_ns_,   \* FlowGenerator::current_timestamp_ns_ of each worker
    \* ---- ThreadSafeQueue
    queue_,                  \* ThreadSafeQueue::queue_
    done_,                   \* ThreadSafeQueue::done_
    \* ---- FlowCollector
    collector_pc,            \* position of the collector thread
    generators_done_,        \* FlowCollector::generators_done_
    flows_collected_,        \* FlowCollector::flows_collected_
    header_printed_,         \* FlowCollector::header_printed_
    chunker_,                \* FlowCollector::chunker_ (a TimestampChunker)
    output_,                 \* what has been written to FlowCollector::output_
    \* ---- main thread
    main_pc,
    \* ---- history
    pushed,                  \* bag of the records pushed to the queue
    consumed,                \* bag of the records the collector passed to add_flow
    emitted,                 \* bag of the records the collector's chunker handed out
    added,                   \* records passed to add_flow, in call order
    handed,                  \* records handed out by the chunker, in order
    ret,                     \* value returned by the last chunker call
    last_op,                 \* last chunker call of the driver
    \* ---- one FlowGenerator driven through its public interface
    gen,                     \* the FlowGenerator object (its private members)
    gen_op,                  \* last member function called on gen
    gen_arg,                 \* configuration passed to the last initialize
    gen_ret,                 \* what that call returned (or that it threw)
    gen_before,              \* the FlowGenerator object before that call
    first_ts,                \* timestamps emitted between initialize and the first reset
    emitted_ts,              \* timestamps emitted since initialize or the last reset
    was_reset,               \* reset() was called since initialize set the timestamps
    failed_init,             \* the last call of initialize failed
    \* ---- flowstats: FlowStatsCommand and its worker threads
    m_flows_per_thread,      \* FlowStatsCommand::m_flows_per_thread
    m_start_timestamp_ns,    \* FlowsOptions::m_start_timestamp_ns
    m_shutdown_requested,    \* FlowStatsCommand::m_shutdown_requested
    stats_main_pc,           \* position of execute() on the main thread
    stats_pc,                \* position of each worker thread in run_worker_thread
    stats_gen,               \* the FlowGenerator gen of each worker thread
    m_flows_generated,       \* PerThreadData::m_flows_generated of each worker
    m_done,                  \* PerThreadData::m_done of each worker
    stats_flow,              \* the local FlowRecord flow of each worker
    m_thread_buffers,        \* ThreadFlowBuffer::m_flows of each worker
    collect_i,               \* position of collect_results in its current loop
    result_flows,            \* CollectResult::m_flows of collect_results
    exit_path,               \* how each worker left its generation loop
    rand_pc,                 \* where each thread stands in a draw of Random
    gen_,                    \* Random::gen_, the state of the shared engine
    rand_local,              \* the engine state a thread's draw has read
    rand_draws,              \* the draws each thread has finished
    fn_in,                   \* the call of a utility function, with its arguments
    fn_out                   \* what that call produced

vars == << init_ok, inter_arrival_time_ns_, start_timestamp_ns_, format_,
           sort_field_, suppress_header_, worker_pc, flow_count_,
           current_timestamp_ns_, queue_, done_, collector_pc,
           generators_done_, flows_collected_, header_printed_, chunker_,
           output_, main_pc, pushed, consumed, emitted, added, handed, ret,
           last_op, gen, gen_op, gen_arg, gen_ret, gen_before, first_ts, emitted_ts,
           was_reset, failed_init, m_flows_per_thread, m_start_timestamp_ns,
           m_shutdown_requested, stats_main_pc, stats_pc, stats_gen,
           m_flows_generated, m_done, stats_flow, m_thread_buffers,
           collect_i, result_flows, exit_path, rand_pc, gen_, rand_local,
           rand_draws, fn_in, fn_out >>

\* the variables of the engine driver and of flowstats
engineVars == << gen, gen_op, gen_arg, gen_ret, gen_before, first_ts, emitted_ts,
                was_reset, failed_init >>
statsVars == << m_flows_per_thread, m_start_timestamp_ns, m_shutdown_requested,
               stats_main_pc, stats_pc, stats_gen, m_flows_generated, m_done,
               stats_flow, m_thread_buffers, collect_i, result_flows,
               exit_path >>
\* the variables of the shared random source and of the utility functions
randomVars == << rand_pc, gen_, rand_local, rand_draws >>
utilVars == << randomVars, fn_in, fn_out >>

(***************************************************************************)
(* Helpers                                                                 *)
(***************************************************************************)
SetMax(S) == CHOOSE x \in S : \A y \in S : y <= x
SetMin(S) == CHOOSE x \in S : \A y \in S : x <= y

RECURSIVE Flatten(_)
Flatten(ss) == IF ss = <<>> THEN <<>> ELSE Head(ss) \o Flatten(Tail(ss))

\* number of occurrences of x in sequence s
Count(s, x) == Cardinality({i \in 1..Len(s) : s[i] = x})
SeqRange(s) == {s[i] : i \in 1..Len(s)}
\* bags of records: functions from the records present to their multiplicity
NoRecords == [x \in {} |-> 0]
BagCount(b, x) == IF x \in DOMAIN b THEN b[x] ELSE 0
BagAdd(b, x) == [y \in DOMAIN b \cup {x} |-> BagCount(b, y) + (IF y = x THEN 1 ELSE 0)]
BagUnion(a, b) == [y \in DOMAIN a \cup DOMAIN b |-> BagCount(a, y) + BagCount(b, y)]
BagOfSeq(s) == [x \in SeqRange(s) |-> Count(s, x)]
BagSize(b) == LET RECURSIVE Sum(_)
                  Sum(D) == IF D = {} THEN 0
                            ELSE LET x == CHOOSE x \in D : TRUE
                                 IN  b[x] + Sum(D \ {x})
              IN  Sum(DOMAIN b)

(***************************************************************************)
(* TimestampChunker                                                        *)
(* A chunker value is a record                                             *)
(*   chunk_duration_ns_, chunks_ (map chunk_id -> vector of records),      *)
(*   oldest_chunk_id_, has_oldest_                                         *)
(***************************************************************************)
EmptyMap == [k \in {} |-> <<>>]

TimestampChunker(chunk_duration_ns) ==
    [ chunk_duration_ns_ |-> chunk_duration_ns,
      chunks_            |-> EmptyMap,
      oldest_chunk_id_   |-> 0,
      has_oldest_        |-> FALSE ]

\* add_flow changed to discard a record whose chunk is older than the oldest
add_flow_drop_late(ck, flow) ==
    LET chunk_id == flow.timestamp \div ck.chunk_duration_ns_
        keys     == DOMAIN ck.chunks_
    IN  IF ck.has_oldest_ /\ chunk_id < ck.oldest_chunk_id_
        THEN ck
        ELSE [ ck EXCEPT
                 !.chunks_ = [k \in keys \cup {chunk_id} |->
                                 IF k = chunk_id
                                 THEN (IF k \in keys THEN Append(ck.chunks_[k], flow)
                                                     ELSE <<flow>>)
                                 ELSE ck.chunks_[k]],
                 !.oldest_chunk_id_ = IF ~ck.has_oldest_ THEN chunk_id ELSE @,
                 !.has_oldest_ = TRUE ]

add_flow(ck, flow) ==
    LET chunk_id == flow.timestamp \div ck.chunk_duration_ns_
        keys     == DOMAIN ck.chunks_
    IN  [ ck EXCEPT
            !.chunks_ = [k \in keys \cup {chunk_id} |->
                            IF k = chunk_id
                            THEN (IF k \in keys THEN Append(ck.chunks_[k], flow)
                                                ELSE <<flow>>)
                            ELSE ck.chunks_[k]],
            !.oldest_chunk_id_ = IF ~ck.has_oldest_ THEN chunk_id ELSE @,
            !.has_oldest_ = TRUE ]

\* has_complete_chunk changed to compare with >=
has_complete_chunk_inclusive(ck) ==
    IF ~ck.has_oldest_ \/ DOMAIN ck.chunks_ = {}
    THEN FALSE
    ELSE LET latest_chunk == SetMax(DOMAIN ck.chunks_)
         IN  latest_chunk >= ck.oldest_chunk_id_

\* has_complete_chunk changed to wait for a chunk two windows later
has_complete_chunk_two_newer(ck) ==
    IF ~ck.has_oldest_ \/ DOMAIN ck.chunks_ = {}
    THEN FALSE
    ELSE LET latest_chunk == SetMax(DOMAIN ck.chunks_)
         IN  latest_chunk > ck.oldest_chunk_id_ + 1

has_complete_chunk(ck) ==
    IF ~ck.has_oldest_ \/ DOMAIN ck.chunks_ = {}
    THEN FALSE
    ELSE LET latest_chunk == SetMax(DOMAIN ck.chunks_)
         IN  latest_chunk > ck.oldest_chunk_id_

\* get_complete_chunk changed to copy the chunk without erasing it
get_complete_chunk_keep(ck) ==
    IF ~has_complete_chunk(ck)
    THEN [ck |-> ck, result |-> <<>>]
    ELSE IF ck.oldest_chunk_id_ \notin DOMAIN ck.chunks_
    THEN [ck |-> [ck EXCEPT !.oldest_chunk_id_ = @ + 1], result |-> <<>>]
    ELSE [ck |-> [ck EXCEPT !.oldest_chunk_id_ = @ + 1],
          result |-> ck.chunks_[ck.oldest_chunk_id_]]

\* get_complete_chunk changed not to advance oldest_chunk_id_ after a move
get_complete_chunk_no_advance(ck) ==
    IF ~has_complete_chunk(ck)
    THEN [ck |-> ck, result |-> <<>>]
    ELSE IF ck.oldest_chunk_id_ \notin DOMAIN ck.chunks_
    THEN [ck |-> [ck EXCEPT !.oldest_chunk_id_ = @ + 1], result |-> <<>>]
    ELSE [ck |-> [ck EXCEPT
                    !.chunks_ = [k \in DOMAIN ck.chunks_ \ {ck.oldest_chunk_id_}
                                    |-> ck.chunks_[k]]],
          result |-> ck.chunks_[ck.oldest_chunk_id_]]

\* returns the chunker after the call and the vector handed out
get_complete_chunk(ck) ==
    IF ~has_complete_chunk(ck)
    THEN [ck |-> ck, result |-> <<>>]
    ELSE IF ck.oldest_chunk_id_ \notin DOMAIN ck.chunks_
    THEN [ck |-> [ck EXCEPT !.oldest_chunk_id_ = @ + 1], result |-> <<>>]
    ELSE [ck |-> [ck EXCEPT
                    !.chunks_ = [k \in DOMAIN ck.chunks_ \ {ck.oldest_chunk_id_}
                                    |-> ck.chunks_[k]],
                    !.oldest_chunk_id_ = @ + 1],
          result |-> ck.chunks_[ck.oldest_chunk_id_]]

\* the loop of flush_all changed to walk the map from its last key
RECURSIVE FlushLoop_descending(_, _)
FlushLoop_descending(chunks, keys) ==
    IF keys = {} THEN <<>>
    ELSE LET chunk_id == SetMax(keys)
             flows    == chunks[chunk_id]
         IN  (IF flows # <<>> THEN <<flows>> ELSE <<>>)
                 \o FlushLoop_descending(chunks, keys \ {chunk_id})

\* the loop of flush_all over the map, in key order
RECURSIVE FlushLoop(_, _)
FlushLoop(chunks, keys) ==
    IF keys = {} THEN <<>>
    ELSE LET chunk_id == SetMin(keys)
             flows    == chunks[chunk_id]
         IN  (IF flows # <<>> THEN <<flows>> ELSE <<>>)
                 \o FlushLoop(chunks, keys \ {chunk_id})

\* returns the chunker after the call and the vector of vectors handed out
flush_all(ck) ==
    [ck |-> [ck EXCEPT !.chunks_ = EmptyMap, !.has_oldest_ = FALSE],
     result |-> FlushLoop(ck.chunks_, DOMAIN ck.chunks_)]

chunk_count(ck) == Cardinality(DOMAIN ck.chunks_)

\* all records buffered in the chunker, chunk by chunk
Buffered(ck) == FlushLoop(ck.chunks_, DOMAIN ck.chunks_)

\* a record as GeneratorWorker::enhance_flow builds it
EnhancedFlowRecord(sid, ts) ==
    [stream_id |-> sid, timestamp |-> ts, first_timestamp |-> ts]

(***************************************************************************)
(* FlowGenerator: configuration, validation and the engine's operations    *)
(***************************************************************************)
\* nanoseconds per second, the factor 1e9 of initialize and should_stop
NsPerSecond == 1000000000
\* bits per byte, the divisor 8.0 of calculate_flows_per_second
BitsPerByte == 8

\* GeneratorConfig::TrafficPattern
TrafficPattern(type, percentage) == [type |-> type, percentage |-> percentage]

\* GeneratorConfig with its default member initializers.  The double members
\* hold integers in every configuration offered below, except
\* bidirectional_probability, which is kept in hundredths (0.5 is 50).
GeneratorConfig ==
    [ bandwidth_gbps            |-> 0,
      flows_per_second          |-> 0,
      max_flows                 |-> 0,
      duration_seconds          |-> 0,
      start_timestamp_ns        |-> 0,
      source_subnets            |-> <<>>,
      destination_subnets       |-> <<>>,
      source_weights            |-> <<>>,
      min_packet_size           |-> 64,
      max_packet_size           |-> 1500,
      average_packet_size       |-> 800,
      bidirectional_mode        |-> "none",
      bidirectional_probability |-> 50,
      traffic_patterns          |-> <<>> ]

\* sum of the elements of a sequence of numbers
RECURSIVE SumSeq(_)
SumSeq(s) == IF s = <<>> THEN 0 ELSE Head(s) + SumSeq(Tail(s))

validate_needs_bandwidth(config) ==
    IF config.bandwidth_gbps <= 0 THEN FALSE
    ELSE IF config.max_flows = 0 /\ config.duration_seconds <= 0 THEN FALSE
    ELSE IF config.traffic_patterns = <<>> THEN FALSE
    ELSE IF SumSeq([i \in 1..Len(config.traffic_patterns) |->
                       config.traffic_patterns[i].percentage]) # 100 THEN FALSE
    ELSE IF config.source_subnets = <<>> THEN FALSE
    ELSE IF config.destination_subnets = <<>> THEN FALSE
    ELSE IF /\ config.source_weights # <<>>
            /\ Len(config.source_weights) # Len(config.source_subnets) THEN FALSE
    ELSE IF /\ config.source_weights # <<>>
            /\ SumSeq(config.source_weights) # 100 THEN FALSE
    ELSE IF config.min_packet_size > config.max_packet_size THEN FALSE
    ELSE IF config.bidirectional_mode \notin {"none", "random"} THEN FALSE
    ELSE IF \/ config.bidirectional_probability < 0
            \/ config.bidirectional_probability > 100 THEN FALSE
    ELSE TRUE

\* GeneratorConfig::validate: TRUE iff the configuration is accepted.  A sum of
\* integer percentages is within 0.01 of 100 exactly when it equals 100.
validate(config) ==
    IF config.bandwidth_gbps <= 0 /\ config.flows_per_second <= 0 THEN FALSE
    ELSE IF config.max_flows = 0 /\ config.duration_seconds <= 0 THEN FALSE
    ELSE IF config.traffic_patterns = <<>> THEN FALSE
    ELSE IF SumSeq([i \in 1..Len(config.traffic_patterns) |->
                       config.traffic_patterns[i].percentage]) # 100 THEN FALSE
    ELSE IF config.source_subnets = <<>> THEN FALSE
    ELSE IF config.destination_subnets = <<>> THEN FALSE
    ELSE IF /\ config.source_weights # <<>>
            /\ Len(config.source_weights) # Len(config.source_subnets) THEN FALSE
    ELSE IF /\ config.source_weights # <<>>
            /\ SumSeq(config.source_weights) # 100 THEN FALSE
    ELSE IF config.min_packet_size > config.max_packet_size THEN FALSE
    ELSE IF config.bidirectional_mode \notin {"none", "random"} THEN FALSE
    ELSE IF \/ config.bidirectional_probability < 0
            \/ config.bidirectional_probability > 100 THEN FALSE
    ELSE TRUE

calculate_flows_per_second_mbps(bandwidth_gbps, avg_packet_size) ==
    (bandwidth_gbps * (1000000 \div BitsPerByte)) \div avg_packet_size

\* utils::calculate_flows_per_second: bandwidth_gbps * 1e9 / 8.0 /
\* avg_packet_size.  Written with the division by 8 first so that no
\* intermediate value leaves the checker's integer range; both quotients are
\* exact for the configurations offered below.
calculate_flows_per_second(bandwidth_gbps, avg_packet_size) ==
    (bandwidth_gbps * (NsPerSecond \div BitsPerByte)) \div avg_packet_size

\* std::transform(..., ::tolower) on the pattern tags offered below
ToLower(tag) ==
    CASE tag = "DNS_TRAFFIC" -> "dns_traffic"
      [] tag = "Web_Traffic" -> "web_traffic"
      [] OTHER -> tag

\* create_pattern_generator: the class of the generator created for a tag, or
\* "throw" for std::runtime_error("Unknown pattern type")
create_pattern_generator(type) ==
    LET lower_type == ToLower(type)
    IN  CASE lower_type = "random" -> "RandomPattern"
          [] lower_type \in {"web_traffic", "http_traffic", "https_traffic"}
                -> "WebPattern"
          [] lower_type = "dns_traffic" -> "DnsPattern"
          [] lower_type = "ssh_traffic" -> "SshPattern"
          [] lower_type = "database_traffic" -> "DatabasePattern"
          [] lower_type \in {"smtp_traffic", "email_traffic"}
                -> "SmtpPattern"
          [] lower_type = "ftp_traffic" -> "FtpPattern"
          [] OTHER -> "throw"

\* FlowGenerator::FlowGenerator(), the members that hold a number first
FlowGenerator ==
    [ inter_arrival_time_ns_ |-> 0,
      start_timestamp_ns_    |-> 0,
      flow_count_            |-> 0,
      current_timestamp_ns_  |-> 0,
      initialized_           |-> FALSE,
      config_                |-> GeneratorConfig,
      pattern_generators_    |-> <<>>,
      pattern_weights_       |-> <<>>,
      flows_per_second_      |-> 0 ]

\* values std::chrono::system_clock::now() may return, in nanoseconds
SystemClockNow == {7}

\* the first index of traffic_patterns whose tag create_pattern_generator
\* rejects, or Len + 1 when every tag is known
FirstUnknown(traffic_patterns) ==
    SetMin({i \in 1..Len(traffic_patterns) :
               create_pattern_generator(traffic_patterns[i].type) = "throw"}
           \cup {Len(traffic_patterns) + 1})

\* FlowGenerator::initialize: the set of outcomes [gen, ret], ret being "true",
\* "false" or "throw".  1.0 / flows_per_second_ * 1e9 truncated to uint64_t is
\* the integer quotient for every rate offered below.
FlowGenerator_initialize(g, config) ==
    IF ~validate(config) THEN {[ret |-> "false", gen |-> g]}
    ELSE
      LET fps == IF config.bandwidth_gbps > 0
                 THEN calculate_flows_per_second(config.bandwidth_gbps,
                                                 config.average_packet_size)
                 ELSE config.flows_per_second
          n == FirstUnknown(config.traffic_patterns) - 1
          created == [i \in 1..n |->
                        create_pattern_generator(config.traffic_patterns[i].type)]
          weights == [i \in 1..n |-> config.traffic_patterns[i].percentage]
          thrown == n < Len(config.traffic_patterns)
      IN  { [ret |-> IF thrown THEN "throw" ELSE "true",
             gen |-> [ inter_arrival_time_ns_ |-> NsPerSecond \div fps,
                       start_timestamp_ns_    |-> start,
                       flow_count_            |-> 0,
                       current_timestamp_ns_  |-> start,
                       initialized_           |-> IF thrown THEN g.initialized_
                                                            ELSE TRUE,
                       config_                |-> config,
                       pattern_generators_    |-> created,
                       pattern_weights_       |-> weights,
                       flows_per_second_      |-> fps ]] :
            start \in (IF config.start_timestamp_ns > 0
                       THEN {config.start_timestamp_ns}
                       ELSE SystemClockNow) }

FlowGenerator_should_stop_one_more(g) ==
    \/ g.config_.max_flows > 0 /\ g.flow_count_ > g.config_.max_flows
    \/ /\ g.config_.duration_seconds > 0
       /\ (g.current_timestamp_ns_ - g.start_timestamp_ns_) \div NsPerSecond
             >= g.config_.duration_seconds

\* FlowGenerator::should_stop.  elapsed / 1e9 >= duration_seconds holds for a
\* whole number of seconds exactly when the integer quotient reaches it.
FlowGenerator_should_stop(g) ==
    \/ g.config_.max_flows > 0 /\ g.flow_count_ >= g.config_.max_flows
    \/ /\ g.config_.duration_seconds > 0
       /\ (g.current_timestamp_ns_ - g.start_timestamp_ns_) \div NsPerSecond
             >= g.config_.duration_seconds

\* FlowGenerator::select_pattern: the indices it may return for some draw r in
\* [0, 100], or {} for nullptr.  Index i is chosen when r lies in
\* (cumsum(i-1), cumsum(i)]; the first index is also the fallback.
select_pattern(g) ==
    IF g.pattern_generators_ = <<>> THEN {}
    ELSE {1} \cup
         {i \in 2..Len(g.pattern_weights_) :
             /\ SumSeq(SubSeq(g.pattern_weights_, 1, i - 1)) < 100
             /\ g.pattern_weights_[i] > 0}

\* the FlowRecord a pattern generator returns, reduced to its timestamp and
\* the class of the generator that produced it
FlowRecord(pattern, timestamp_ns) == [timestamp |-> timestamp_ns, pattern |-> pattern]

\* a default-constructed FlowRecord, what the caller's flow holds when next
\* returns false
NoFlowRecord == FlowRecord("none", 0)

FlowGenerator_next_drift(g) ==
    IF ~g.initialized_ \/ FlowGenerator_should_stop(g) \/ select_pattern(g) = {}
    THEN {[flow |-> NoFlowRecord, gen |-> g, ok |-> FALSE]}
    ELSE {[flow |-> FlowRecord(g.pattern_generators_[i],
                               g.current_timestamp_ns_),
           gen |-> [g EXCEPT !.flow_count_ = @ + 1,
                             !.current_timestamp_ns_ =
                                 @ + g.inter_arrival_time_ns_ + g.flow_count_],
           ok |-> TRUE] :
          i \in select_pattern(g)}

\* FlowGenerator::next: the set of outcomes [gen, ok, flow]
FlowGenerator_next(g) ==
    IF ~g.initialized_ \/ FlowGenerator_should_stop(g) \/ select_pattern(g) = {}
    THEN {[flow |-> NoFlowRecord, gen |-> g, ok |-> FALSE]}
    ELSE {[flow |-> FlowRecord(g.pattern_generators_[i],
                               g.current_timestamp_ns_),
           gen |-> [g EXCEPT !.flow_count_ = @ + 1,
                             !.current_timestamp_ns_ =
                                 @ + g.inter_arrival_time_ns_],
           ok |-> TRUE] :
          i \in select_pattern(g)}

FlowGenerator_reset_keep_count(g) ==
    IF g.initialized_
    THEN [g EXCEPT !.current_timestamp_ns_ = g.start_timestamp_ns_]
    ELSE g

\* FlowGenerator::reset
FlowGenerator_reset(g) ==
    IF g.initialized_
    THEN [g EXCEPT !.current_timestamp_ns_ = g.start_timestamp_ns_,
                   !.flow_count_ = 0]
    ELSE g

\* thread ids of the flowstats worker threads (0 .. m_num_threads - 1)
StatsThreads == {0, 1}

\* the engine driver before any call
EngineIdle ==
    /\ gen = FlowGenerator
    /\ gen_op = "none"
    /\ gen_arg = GeneratorConfig
    /\ gen_ret = [ret |-> "void", flow |-> NoFlowRecord]
    /\ gen_before = FlowGenerator
    /\ first_ts = <<>>
    /\ emitted_ts = <<>>
    /\ was_reset = FALSE
    /\ failed_init = FALSE

\* a FlowStatsCommand after construction, before execute()
StatsIdle ==
    /\ m_flows_per_thread = 0
    /\ m_start_timestamp_ns = 0
    /\ m_shutdown_requested = FALSE
    /\ stats_main_pc = "idle"
    /\ stats_pc = [t \in StatsThreads |-> "idle"]
    /\ stats_gen = [t \in StatsThreads |-> FlowGenerator]
    /\ m_flows_generated = [t \in StatsThreads |-> 0]
    /\ m_done = [t \in StatsThreads |-> FALSE]
    /\ stats_flow = [t \in StatsThreads |-> NoFlowRecord]
    /\ m_thread_buffers = [t \in StatsThreads |-> <<>>]
    /\ collect_i = 0
    /\ result_flows = <<>>
    /\ exit_path = [t \in StatsThreads |-> "none"]

\* no thread draws from Random and no utility function is called
UtilIdle ==
    /\ rand_pc = [w \in Workers |-> "idle"]
    /\ gen_ = 0
    /\ rand_local = [w \in Workers |-> 0]
    /\ rand_draws = [w \in Workers |-> 0]
    /\ fn_in = [op |-> "none"]
    /\ fn_out = [op |-> "none"]

(***************************************************************************)
(* SpecChunker: the chunker driven through its public interface            *)
(***************************************************************************)
pipeVars == << init_ok, inter_arrival_time_ns_, start_timestamp_ns_, format_,
               sort_field_, suppress_header_, worker_pc, flow_count_,
               current_timestamp_ns_, queue_, done_, collector_pc,
               generators_done_, flows_collected_, header_printed_,
               output_, main_pc, pushed, consumed, emitted >>

InitChunker ==
    /\ init_ok = TRUE
    /\ inter_arrival_time_ns_ = 1
    /\ start_timestamp_ns_ = 0
    /\ format_ = "CSV"
    /\ sort_field_ = "TIMESTAMP"
    /\ suppress_header_ = FALSE
    /\ worker_pc = [i \in Workers |-> "done"]
    /\ flow_count_ = [i \in Workers |-> 0]
    /\ current_timestamp_ns_ = [i \in Workers |-> 0]
    /\ queue_ = <<>>
    /\ done_ = FALSE
    /\ collector_pc = "end"
    /\ generators_done_ = 0
    /\ flows_collected_ = 0
    /\ header_printed_ = FALSE
    /\ output_ = <<>>
    /\ main_pc = "exit"
    /\ pushed = NoRecords
    /\ consumed = NoRecords
    /\ emitted = NoRecords
    /\ \E d \in ChunkDurations : chunker_ = TimestampChunker(d)
    /\ added = <<>>
    /\ handed = <<>>
    /\ ret = <<>>
    /\ last_op = "none"
    /\ EngineIdle
    /\ StatsIdle
    /\ UtilIdle

ChAddFlow ==
    /\ Len(added) < MaxAdds
    /\ \E ts \in Timestamps :
         LET flow == EnhancedFlowRecord(1, ts)
         IN  /\ chunker_' = add_flow(chunker_, flow)
             /\ added' = Append(added, flow)
    /\ ret' = <<>>
    /\ last_op' = "add_flow"
    /\ UNCHANGED << handed, pipeVars, engineVars, statsVars, utilVars >>

ChGetCompleteChunk ==
    /\ LET r == get_complete_chunk(chunker_)
       IN  /\ chunker_' = r.ck
           /\ ret' = r.result
           /\ handed' = handed \o r.result
    /\ last_op' = "get_complete_chunk"
    /\ UNCHANGED << added, pipeVars, engineVars, statsVars, utilVars >>

ChFlushAll ==
    /\ LET r == flush_all(chunker_)
       IN  /\ chunker_' = r.ck
           /\ ret' = r.result
           /\ handed' = handed \o Flatten(r.result)
    /\ last_op' = "flush_all"
    /\ UNCHANGED << added, pipeVars, engineVars, statsVars, utilVars >>

NextChunker == ChAddFlow \/ ChGetCompleteChunk \/ ChFlushAll

SpecChunker == InitChunker /\ [][NextChunker]_vars


(***************************************************************************)
(* FlowFormatter                                                           *)
(***************************************************************************)
\* the comparator handed to std::sort for each sort field
SortLess(a, b) ==
    CASE sort_field_ = "TIMESTAMP" -> a.timestamp < b.timestamp
      [] sort_field_ = "STREAM_ID" ->
            IF a.stream_id # b.stream_id THEN a.stream_id < b.stream_id
                                         ELSE a.timestamp < b.timestamp

\* std::sort leaves the relative order of equivalent elements unspecified:
\* every arrangement of flows[idx] without an inversion is a possible result
RECURSIVE SortOrders(_, _)
SortOrders(flows, idx) ==
    IF idx = {} THEN {<<>>}
    ELSE UNION { { <<flows[i]>> \o rest : rest \in SortOrders(flows, idx \ {i}) } :
                 i \in {i \in idx : \A j \in idx : ~SortLess(flows[j], flows[i])} }

sort_flows(flows) == SortOrders(flows, 1..Len(flows))

\* EnhancedFlowRecord::to_json: the object, followed by a comma unless last
to_json(flow, last) == [kind |-> "flow", flow |-> flow, comma |-> ~last]
\* EnhancedFlowRecord::to_csv: a row, never followed by a comma
to_csv(flow) == [kind |-> "flow", flow |-> flow, comma |-> FALSE]

format_flow(flow, is_last) ==
    CASE format_ = "JSON" -> to_json(flow, is_last)
      [] format_ = "CSV"  -> to_csv(flow)

format_header(suppress_header) ==
    IF suppress_header THEN <<>>
    ELSE CASE format_ = "JSON" -> << [kind |-> "header", flow |-> "[", comma |-> FALSE] >>
           [] format_ = "CSV"  -> << [kind |-> "header", flow |-> "csv_header", comma |-> FALSE] >>

format_footer ==
    IF format_ = "JSON" THEN << [kind |-> "footer", flow |-> "]", comma |-> FALSE] >>
                        ELSE <<>>

(***************************************************************************)
(* FlowCollector                                                           *)
(***************************************************************************)
\* is_last of output_chunk for element i of n, the chunker being ck
IsLast(i, n, ck) ==
    /\ i = n
    /\ generators_done_ >= NumThreads
    /\ queue_ = <<>>
    /\ chunk_count(ck) = 0

\* the possible texts output_chunk writes for one chunk
output_chunk(flows, ck) ==
    { [i \in 1..Len(sorted) |-> format_flow(sorted[i], IsLast(i, Len(sorted), ck))] :
      sorted \in sort_flows(flows) }

\* the loop of process_complete_chunks: the possible outcomes, each the
\* chunker afterwards, the text written and the records handed out
RECURSIVE process_complete_chunks(_)
process_complete_chunks(ck) ==
    IF ~has_complete_chunk(ck)
    THEN { [ck |-> ck, out |-> <<>>, recs |-> <<>>] }
    ELSE LET r == get_complete_chunk(ck)
         IN  IF r.result = <<>>
             THEN process_complete_chunks(r.ck)
             ELSE UNION { { [ck   |-> rest.ck,
                             out  |-> o \o rest.out,
                             recs |-> r.result \o rest.recs] :
                            rest \in process_complete_chunks(r.ck) } :
                          o \in output_chunk(r.result, r.ck) }

\* the number of times the body of the loop of process_complete_chunks runs
RECURSIVE process_complete_chunks_iterations(_)
process_complete_chunks_iterations(ck) ==
    IF ~has_complete_chunk(ck) THEN 0
    ELSE 1 + process_complete_chunks_iterations(get_complete_chunk(ck).ck)

\* the loop of flush_remaining_chunks over the vectors flush_all returned
RECURSIVE OutputChunks(_, _)
OutputChunks(remaining_chunks, ck) ==
    IF remaining_chunks = <<>> THEN {<<>>}
    ELSE UNION { { o \o rest : rest \in OutputChunks(Tail(remaining_chunks), ck) } :
                 o \in output_chunk(Head(remaining_chunks), ck) }

flush_remaining_chunks(ck) ==
    LET r == flush_all(ck)
    IN  { [ck |-> r.ck, out |-> o, recs |-> Flatten(r.result)] :
          o \in OutputChunks(r.result, r.ck) }

\* the exit test changed to be satisfied one generator early
AllGeneratorsDone_one_early(gd) == gd >= NumThreads - 1

\* the exit test changed to a strict comparison
AllGeneratorsDone_strict(gd) == gd > NumThreads

\* the generators_done_ test of the condition under which run() leaves its loop
AllGeneratorsDone(gd) == gd >= NumThreads

(***************************************************************************)
(* Spec: the pipeline of main()                                            *)
(***************************************************************************)
chunkerHist == << added, handed, ret, last_op >>
config == << init_ok, inter_arrival_time_ns_, start_timestamp_ns_, format_,
             sort_field_, suppress_header_ >>
workerVars == << worker_pc, flow_count_, current_timestamp_ns_ >>
collectorVars == << collector_pc, flows_collected_, header_printed_, chunker_,
                    output_, consumed, emitted >>

Init ==
    /\ init_ok \in BOOLEAN
    /\ inter_arrival_time_ns_ \in Deltas
    /\ start_timestamp_ns_ \in StartTimestamps
    /\ format_ \in {"JSON", "CSV"}
    /\ sort_field_ \in {"TIMESTAMP", "STREAM_ID"}
    /\ suppress_header_ \in BOOLEAN
    /\ worker_pc = [i \in Workers |-> "start"]
    /\ flow_count_ = [i \in Workers |-> 0]
    /\ current_timestamp_ns_ = [i \in Workers |-> 0]
    /\ queue_ = <<>>
    /\ done_ = FALSE
    /\ collector_pc = "header"
    /\ generators_done_ = 0
    /\ flows_collected_ = 0
    /\ header_printed_ = FALSE
    /\ \E d \in PipeChunkDurations : chunker_ = TimestampChunker(d)
    /\ output_ = <<>>
    /\ main_pc = "join_generators"
    /\ pushed = NoRecords
    /\ consumed = NoRecords
    /\ emitted = NoRecords
    /\ added = <<>>
    /\ handed = <<>>
    /\ ret = <<>>
    /\ last_op = "none"
    /\ EngineIdle
    /\ StatsIdle
    /\ UtilIdle

\* FlowGenerator::should_stop with max_flows = flows_to_generate_ and no duration
should_stop(i) == MaxFlows > 0 /\ flow_count_[i] >= MaxFlows

\* GeneratorWorker::run: generator.initialize succeeds
WorkerInit(i) ==
    /\ worker_pc[i] = "start"
    /\ init_ok
    /\ worker_pc' = [worker_pc EXCEPT ![i] = "run"]
    /\ current_timestamp_ns_' =
           [current_timestamp_ns_ EXCEPT ![i] = start_timestamp_ns_]
    /\ UNCHANGED << flow_count_, queue_, done_, generators_done_, main_pc,
                    pushed, collectorVars, config, chunkerHist,
                    engineVars, statsVars, utilVars >>

\* generator.initialize fails: run() returns at once and the thread lambda
\* calls collector.generator_done()
WorkerInitFailed(i) ==
    /\ worker_pc[i] = "start"
    /\ ~init_ok
    /\ generators_done_' = generators_done_ + 1
    /\ worker_pc' = [worker_pc EXCEPT ![i] = "done"]
    /\ UNCHANGED << flow_count_, current_timestamp_ns_, queue_, done_, main_pc,
                    pushed, collectorVars, config, chunkerHist,
                    engineVars, statsVars, utilVars >>

\* one iteration of the generation loop: next(), enhance_flow(), push()
WorkerNext(i) ==
    /\ worker_pc[i] = "run"
    /\ ~should_stop(i)
    /\ LET enhanced == EnhancedFlowRecord(i, current_timestamp_ns_[i])
       IN  /\ queue_' = Append(queue_, enhanced)
           /\ pushed' = BagAdd(pushed, enhanced)
    /\ flow_count_' = [flow_count_ EXCEPT ![i] = @ + 1]
    /\ current_timestamp_ns_' =
           [current_timestamp_ns_ EXCEPT ![i] = @ + inter_arrival_time_ns_]
    /\ UNCHANGED << worker_pc, done_, generators_done_, main_pc,
                    collectorVars, config, chunkerHist,
                    engineVars, statsVars, utilVars >>

\* next() returns false: run() returns and the thread lambda calls
\* collector.generator_done()
WorkerFinish(i) ==
    /\ worker_pc[i] = "run"
    /\ should_stop(i)
    /\ generators_done_' = generators_done_ + 1
    /\ worker_pc' = [worker_pc EXCEPT ![i] = "done"]
    /\ UNCHANGED << flow_count_, current_timestamp_ns_, queue_, done_, main_pc,
                    pushed, collectorVars, config, chunkerHist,
                    engineVars, statsVars, utilVars >>

\* set_done changed to discard what is still queued
MainSetDone_clears_queue ==
    /\ main_pc = "join_generators"
    /\ \A i \in Workers : worker_pc[i] = "done"
    /\ done_' = TRUE
    /\ queue_' = <<>>
    /\ main_pc' = "join_collector"
    /\ UNCHANGED << workerVars, generators_done_, pushed,
                    collectorVars, config, chunkerHist,
                    engineVars, statsVars, utilVars >>

\* main: every generator thread joined, flow_queue.set_done()
MainSetDone ==
    /\ main_pc = "join_generators"
    /\ \A i \in Workers : worker_pc[i] = "done"
    /\ done_' = TRUE
    /\ main_pc' = "join_collector"
    /\ UNCHANGED << workerVars, queue_, generators_done_, pushed,
                    collectorVars, config, chunkerHist,
                    engineVars, statsVars, utilVars >>

\* main: collector thread joined
MainJoinCollector ==
    /\ main_pc = "join_collector"
    /\ collector_pc = "end"
    /\ main_pc' = "exit"
    /\ UNCHANGED << workerVars, queue_, done_, generators_done_, pushed,
                    collectorVars, config, chunkerHist,
                    engineVars, statsVars, utilVars >>

\* run(): the header
CollectorHeader ==
    /\ collector_pc = "header"
    /\ IF ~suppress_header_ /\ ~header_printed_
       THEN LET header == format_header(suppress_header_)
            IN  IF header # <<>>
                THEN output_' = output_ \o header /\ header_printed_' = TRUE
                ELSE UNCHANGED << output_, header_printed_ >>
       ELSE UNCHANGED << output_, header_printed_ >>
    /\ collector_pc' = "try_pop"
    /\ UNCHANGED << workerVars, queue_, done_, generators_done_, main_pc,
                    pushed, flows_collected_, chunker_, consumed, emitted,
                    config, chunkerHist,
                    engineVars, statsVars, utilVars >>

\* try_pop returned a flow: add_flow, process_complete_chunks
CollectorPopFlow ==
    /\ collector_pc = "try_pop"
    /\ queue_ # <<>>
    /\ queue_' = Tail(queue_)
    /\ flows_collected_' = flows_collected_ + 1
    /\ consumed' = BagAdd(consumed, Head(queue_))
    /\ \E r \in process_complete_chunks(add_flow(chunker_, Head(queue_))) :
          /\ chunker_' = r.ck
          /\ output_' = output_ \o r.out
          /\ emitted' = BagUnion(emitted, BagOfSeq(r.recs))
    /\ UNCHANGED << workerVars, done_, generators_done_, main_pc, pushed,
                    collector_pc, header_printed_, config, chunkerHist,
                    engineVars, statsVars, utilVars >>

\* try_pop returned nothing: timeout, or queue done and empty
CollectorPopNothing ==
    /\ collector_pc = "try_pop"
    /\ queue_ = <<>>
    /\ collector_pc' = "check_done"
    /\ UNCHANGED << workerVars, queue_, done_, generators_done_, main_pc,
                    pushed, flows_collected_, header_printed_, chunker_,
                    output_, consumed, emitted, config, chunkerHist,
                    engineVars, statsVars, utilVars >>

\* the read of generators_done_ in the exit condition
CollectorCheckDone ==
    /\ collector_pc = "check_done"
    /\ collector_pc' = IF AllGeneratorsDone(generators_done_)
                       THEN "check_empty" ELSE "try_pop"
    /\ UNCHANGED << workerVars, queue_, done_, generators_done_, main_pc,
                    pushed, flows_collected_, header_printed_, chunker_,
                    output_, consumed, emitted, config, chunkerHist,
                    engineVars, statsVars, utilVars >>

\* the call of input_queue_.empty() in the exit condition
CollectorCheckEmpty ==
    /\ collector_pc = "check_empty"
    /\ collector_pc' = IF queue_ = <<>> THEN "flush" ELSE "try_pop"
    /\ UNCHANGED << workerVars, queue_, done_, generators_done_, main_pc,
                    pushed, flows_collected_, header_printed_, chunker_,
                    output_, consumed, emitted, config, chunkerHist,
                    engineVars, statsVars, utilVars >>

\* flush_remaining_chunks
CollectorFlush ==
    /\ collector_pc = "flush"
    /\ \E r \in flush_remaining_chunks(chunker_) :
          /\ chunker_' = r.ck
          /\ output_' = output_ \o r.out
          /\ emitted' = BagUnion(emitted, BagOfSeq(r.recs))
    /\ collector_pc' = "footer"
    /\ UNCHANGED << workerVars, queue_, done_, generators_done_, main_pc,
                    pushed, flows_collected_, header_printed_, consumed,
                    config, chunkerHist,
                    engineVars, statsVars, utilVars >>

\* the footer, and run() returns
CollectorFooter ==
    /\ collector_pc = "footer"
    /\ output_' = output_ \o format_footer
    /\ collector_pc' = "end"
    /\ UNCHANGED << workerVars, queue_, done_, generators_done_, main_pc,
                    pushed, flows_collected_, header_printed_, chunker_,
                    consumed, emitted, config, chunkerHist,
                    engineVars, statsVars, utilVars >>

Worker(i) == WorkerInit(i) \/ WorkerInitFailed(i) \/ WorkerNext(i) \/ WorkerFinish(i)

Collector ==
    \/ CollectorHeader
    \/ CollectorPopFlow
    \/ CollectorPopNothing
    \/ CollectorCheckDone
    \/ CollectorCheckEmpty
    \/ CollectorFlush
    \/ CollectorFooter

Main == MainSetDone \/ MainJoinCollector

Next == (\E i \in Workers : Worker(i)) \/ Collector \/ Main

Spec == Init /\ [][Next]_vars

\* every thread that can run is eventually scheduled
FairSpec ==
    /\ Spec
    /\ \A i \in Workers : WF_vars(Worker(i))
    /\ WF_vars(Collector)
    /\ WF_vars(Main)

(***************************************************************************)
(* SpecS5: the chunker driven by the scenario "records 0, 5, 10, 12, 25    *)
(* with chunk_duration_ns = 10", then by further records, with             *)
(* get_complete_chunk and flush_all called at any point                    *)
(***************************************************************************)
\* number of records inserted after the five of the scenario
MaxFurther == 1

S5Script == <<0, 5, 10, 12, 25>>
S5Further == {27, 30}

S5AddFlow ==
    /\ Len(added) < Len(S5Script) + MaxFurther
    /\ \E ts \in (IF Len(added) < Len(S5Script) THEN {S5Script[Len(added) + 1]}
                                                ELSE S5Further) :
         LET flow == EnhancedFlowRecord(1, ts)
         IN  /\ chunker_' = add_flow(chunker_, flow)
             /\ added' = Append(added, flow)
    /\ ret' = <<>>
    /\ last_op' = "add_flow"
    /\ UNCHANGED << handed, pipeVars, engineVars, statsVars, utilVars >>

NextS5 == S5AddFlow \/ ChGetCompleteChunk \/ ChFlushAll

SpecS5 == InitChunker /\ [][NextS5]_vars

(***************************************************************************)
(* SpecEngine: one FlowGenerator driven through its public interface       *)
(***************************************************************************)
\* largest max_flows of the configurations offered to initialize
MaxCfgFlows == 3

\* a configuration that validate accepts: 10 Gbps, 800-byte packets, two
\* known pattern tags, one source and one destination subnet
BaseConfig ==
    [GeneratorConfig EXCEPT
        !.bandwidth_gbps = 10,
        !.max_flows = 2,
        !.start_timestamp_ns = 100,
        !.source_subnets = <<"192.168.0.0/16">>,
        !.destination_subnets = <<"10.100.0.0/16">>,
        !.traffic_patterns = << TrafficPattern("Web_Traffic", 60),
                                TrafficPattern("dns_traffic", 40) >>]

\* stop after max_flows records; start given or taken from the system clock
CountConfigs ==
    { [BaseConfig EXCEPT !.max_flows = m, !.start_timestamp_ns = s] :
        m \in 1..MaxCfgFlows, s \in {0, 100} }

\* the rate given as bandwidth, as flows_per_second, as both or not at all
RateConfigs ==
    { [BaseConfig EXCEPT !.bandwidth_gbps = b, !.flows_per_second = f] :
        b \in {-1, 0}, f \in {0, 2, 2000000000} }
    \cup { [BaseConfig EXCEPT !.bandwidth_gbps = 10, !.flows_per_second = 2],
           [BaseConfig EXCEPT !.average_packet_size = 1] }

\* stop after duration_seconds of simulated time
DurationConfigs ==
    { [BaseConfig EXCEPT !.bandwidth_gbps = 0, !.flows_per_second = f,
                         !.max_flows = m, !.duration_seconds = d] :
        f \in {2, 4}, m \in {0, MaxCfgFlows}, d \in {0, 1} }

\* one violation of validate each
InvalidConfigs ==
    { [BaseConfig EXCEPT !.traffic_patterns = <<>>],
      [BaseConfig EXCEPT !.traffic_patterns =
          << TrafficPattern("web_traffic", 60), TrafficPattern("dns_traffic", 30) >>],
      [BaseConfig EXCEPT !.source_subnets = <<>>],
      [BaseConfig EXCEPT !.destination_subnets = <<>>],
      [BaseConfig EXCEPT !.source_weights = <<50, 50>>],
      [BaseConfig EXCEPT !.source_weights = <<50>>],
      [BaseConfig EXCEPT !.min_packet_size = 1501],
      [BaseConfig EXCEPT !.bidirectional_mode = "both"],
      [BaseConfig EXCEPT !.bidirectional_probability = 110],
      [BaseConfig EXCEPT !.bidirectional_probability = -10] }

\* accepted by validate, with a pattern tag the factory does not know
UnknownPatternConfigs ==
    { [BaseConfig EXCEPT !.start_timestamp_ns = 200, !.traffic_patterns =
          << TrafficPattern("bogus", 60), TrafficPattern("dns_traffic", 40) >>],
      [BaseConfig EXCEPT !.start_timestamp_ns = 200, !.traffic_patterns =
          << TrafficPattern("http_traffic", 60), TrafficPattern("bogus", 40) >>] }

\* every constraint met but no stop condition, as the examples build it
NoStopConfigs ==
    { [BaseConfig EXCEPT !.max_flows = 0, !.duration_seconds = 0,
                         !.start_timestamp_ns = s] : s \in {0, 100} }

Configs == CountConfigs \cup RateConfigs \cup DurationConfigs
           \cup InvalidConfigs \cup UnknownPatternConfigs \cup NoStopConfigs

flowdumpVars == << pipeVars, chunker_, chunkerHist >>

\* flowdump not running: no thread, empty queue, empty chunker
FlowdumpIdle ==
    /\ init_ok = TRUE
    /\ inter_arrival_time_ns_ = 1
    /\ start_timestamp_ns_ = 0
    /\ format_ = "CSV"
    /\ sort_field_ = "TIMESTAMP"
    /\ suppress_header_ = FALSE
    /\ worker_pc = [i \in Workers |-> "done"]
    /\ flow_count_ = [i \in Workers |-> 0]
    /\ current_timestamp_ns_ = [i \in Workers |-> 0]
    /\ queue_ = <<>>
    /\ done_ = FALSE
    /\ collector_pc = "end"
    /\ generators_done_ = 0
    /\ flows_collected_ = 0
    /\ header_printed_ = FALSE
    /\ output_ = <<>>
    /\ main_pc = "exit"
    /\ pushed = NoRecords
    /\ consumed = NoRecords
    /\ emitted = NoRecords
    /\ \E d \in ChunkDurations : chunker_ = TimestampChunker(d)
    /\ added = <<>>
    /\ handed = <<>>
    /\ ret = <<>>
    /\ last_op = "none"

InitEngine == FlowdumpIdle /\ EngineIdle /\ StatsIdle /\ UtilIdle

\* gen.initialize(config)
EngInitialize ==
    \E cfg \in Configs :
      \E o \in FlowGenerator_initialize(gen, cfg) :
        /\ gen' = o.gen
        /\ gen_op' = "initialize"
        /\ gen_arg' = cfg
        /\ gen_ret' = [ret |-> o.ret, flow |-> NoFlowRecord]
        /\ gen_before' = gen
        /\ failed_init' = (o.ret # "true")
        /\ IF o.ret = "false"
           THEN UNCHANGED << first_ts, emitted_ts, was_reset >>
           ELSE /\ first_ts' = <<>>
                /\ emitted_ts' = <<>>
                /\ was_reset' = FALSE
        /\ UNCHANGED << flowdumpVars, statsVars, utilVars >>

\* gen.next(flow)
EngNext ==
    \E o \in FlowGenerator_next(gen) :
        /\ gen' = o.gen
        /\ gen_op' = "next"
        /\ gen_ret' = [ret |-> IF o.ok THEN "true" ELSE "false", flow |-> o.flow]
        /\ gen_before' = gen
        /\ emitted_ts' = IF o.ok THEN Append(emitted_ts, o.flow.timestamp)
                                 ELSE emitted_ts
        /\ first_ts' = IF o.ok /\ ~was_reset
                       THEN Append(first_ts, o.flow.timestamp)
                       ELSE first_ts
        /\ UNCHANGED << gen_arg, was_reset, failed_init, flowdumpVars,
                        statsVars, utilVars >>

\* gen.reset()
EngReset ==
    /\ gen' = FlowGenerator_reset(gen)
    /\ gen_op' = "reset"
    /\ gen_ret' = [ret |-> "void", flow |-> NoFlowRecord]
    /\ gen_before' = gen
    /\ IF gen.initialized_
       THEN emitted_ts' = <<>> /\ was_reset' = TRUE
       ELSE UNCHANGED << emitted_ts, was_reset >>
    /\ UNCHANGED << gen_arg, first_ts, failed_init, flowdumpVars, statsVars, utilVars >>

NextEngine == EngInitialize \/ EngNext \/ EngReset

SpecEngine == InitEngine /\ [][NextEngine]_vars

(***************************************************************************)
(* SpecStats: execute() of a flowstats subcommand and its worker threads   *)
(***************************************************************************)
\* largest flows-per-thread option offered
MaxStatsFlows == 2

\* the configuration run_worker_thread builds
WorkerConfig ==
    [GeneratorConfig EXCEPT
        !.bandwidth_gbps = 10,
        !.max_flows = m_flows_per_thread,
        !.start_timestamp_ns = m_start_timestamp_ns,
        !.source_subnets = <<"192.168.0.0/16", "10.10.0.0/16">>,
        !.destination_subnets = <<"10.100.0.0/16", "172.16.0.0/12">>,
        !.traffic_patterns = << TrafficPattern("web_traffic", 40),
                                TrafficPattern("dns_traffic", 20),
                                TrafficPattern("database_traffic", 20),
                                TrafficPattern("random", 20) >>]

\* FlowStatsFlows::initialize with --total-flows: the per-thread count
FlowStatsFlows_initialize(total_flows, num_threads) == total_flows \div num_threads

\* execute() has validated the options and initialized the subcommand
InitStats ==
    /\ FlowdumpIdle
    /\ EngineIdle
    /\ UtilIdle
    /\ m_flows_per_thread \in 0..MaxStatsFlows
    /\ m_start_timestamp_ns \in {0, 100}
    /\ m_shutdown_requested = FALSE
    /\ stats_main_pc = "start_worker_threads"
    /\ stats_pc = [t \in StatsThreads |-> "idle"]
    /\ stats_gen = [t \in StatsThreads |-> FlowGenerator]
    /\ m_flows_generated = [t \in StatsThreads |-> 0]
    /\ m_done = [t \in StatsThreads |-> FALSE]
    /\ stats_flow = [t \in StatsThreads |-> NoFlowRecord]
    /\ m_thread_buffers = [t \in StatsThreads |-> <<>>]
    /\ collect_i = 0
    /\ result_flows = <<>>
    /\ exit_path = [t \in StatsThreads |-> "none"]

statsOptions == << m_flows_per_thread, m_start_timestamp_ns >>
\* what the main thread writes, and what the worker threads write
statsMainVars == << stats_main_pc, collect_i, result_flows >>
statsWorkerVars == << stats_gen, stats_flow, m_thread_buffers,
                     m_flows_generated, m_done, exit_path >>
notStatsVars == << engineVars, flowdumpVars, utilVars >>

\* the thread id after t, and the last thread id
LastThread == SetMax(StatsThreads)

\* start_worker_threads: m_threads.emplace_back for the next thread id
StatsStartThread(t) ==
    /\ stats_main_pc = "start_worker_threads"
    /\ stats_pc[t] = "idle"
    /\ \A u \in StatsThreads : u < t => stats_pc[u] # "idle"
    /\ stats_pc' = [stats_pc EXCEPT ![t] = "initialize"]
    /\ stats_main_pc' = IF t = LastThread THEN "collect_wait" ELSE stats_main_pc
    /\ UNCHANGED << statsOptions, m_shutdown_requested, collect_i, result_flows,
                    statsWorkerVars, notStatsVars >>

StatsCollectWait_no_wait ==
    /\ stats_main_pc = "collect_wait"
    /\ IF collect_i = LastThread
       THEN stats_main_pc' = "collect_merge" /\ collect_i' = 0
       ELSE stats_main_pc' = stats_main_pc /\ collect_i' = collect_i + 1
    /\ UNCHANGED << statsOptions, m_shutdown_requested, result_flows, stats_pc,
                    statsWorkerVars, notStatsVars >>

\* collect_results, first loop: m_done of thread collect_i is seen true
StatsCollectWait ==
    /\ stats_main_pc = "collect_wait"
    /\ m_done[collect_i]
    /\ IF collect_i = LastThread
       THEN stats_main_pc' = "collect_merge" /\ collect_i' = 0
       ELSE stats_main_pc' = stats_main_pc /\ collect_i' = collect_i + 1
    /\ UNCHANGED << statsOptions, m_shutdown_requested, result_flows, stats_pc,
                    statsWorkerVars, notStatsVars >>

StatsCollectBuffer_skip_failed ==
    /\ stats_main_pc = "collect_merge"
    /\ result_flows' = IF exit_path[collect_i] = "exception"
                       THEN result_flows
                       ELSE result_flows \o m_thread_buffers[collect_i]
    /\ IF collect_i = SetMax(StatsThreads)
       THEN stats_main_pc' = "collect_sort" /\ collect_i' = 0
       ELSE stats_main_pc' = stats_main_pc /\ collect_i' = collect_i + 1
    /\ UNCHANGED << statsOptions, m_shutdown_requested, stats_pc,
                    statsWorkerVars, notStatsVars >>

\* collect_results, second loop: the flows of buffer collect_i are appended
\* to result.m_flows
StatsCollectBuffer ==
    /\ stats_main_pc = "collect_merge"
    /\ result_flows' = result_flows \o m_thread_buffers[collect_i]
    /\ IF collect_i = LastThread
       THEN stats_main_pc' = "collect_sort" /\ collect_i' = 0
       ELSE stats_main_pc' = stats_main_pc /\ collect_i' = collect_i + 1
    /\ UNCHANGED << statsOptions, m_shutdown_requested, stats_pc,
                    statsWorkerVars, notStatsVars >>

\* the comparator of the std::sort in collect_results
FirstTimestampLess(a, b) == a.first_timestamp < b.first_timestamp

\* every arrangement of flows[idx] std::sort may produce with that comparator
RECURSIVE StatsSortOrders(_, _)
StatsSortOrders(flows, idx) ==
    IF idx = {} THEN {<<>>}
    ELSE UNION { { <<flows[i]>> \o rest :
                       rest \in StatsSortOrders(flows, idx \ {i}) } :
                 i \in {i \in idx :
                           \A j \in idx : ~FirstTimestampLess(flows[j], flows[i])} }

\* collect_results: std::sort by first_timestamp, the totals, return result
StatsCollectSort ==
    /\ stats_main_pc = "collect_sort"
    /\ result_flows' \in StatsSortOrders(result_flows, 1..Len(result_flows))
    /\ stats_main_pc' = "wait_for_completion"
    /\ UNCHANGED << statsOptions, m_shutdown_requested, collect_i, stats_pc,
                    statsWorkerVars, notStatsVars >>

\* collect_results leaves by an exception: execute() requests the shutdown;
\* result is never assigned
StatsCollectThrows ==
    /\ stats_main_pc \in {"collect_wait", "collect_merge", "collect_sort"}
    /\ m_shutdown_requested' = TRUE
    /\ stats_main_pc' = "wait_for_completion"
    /\ result_flows' = <<>>
    /\ UNCHANGED << statsOptions, collect_i, stats_pc, statsWorkerVars,
                    notStatsVars >>

\* wait_for_completion: every worker thread joined; execute() goes on to
\* output_results, or returns 1 after a failed collection
StatsWaitForCompletion ==
    /\ stats_main_pc = "wait_for_completion"
    /\ \A t \in StatsThreads : stats_pc[t] = "exit"
    /\ stats_main_pc' = IF m_shutdown_requested THEN "return_1"
                                                ELSE "output_results"
    /\ UNCHANGED << statsOptions, m_shutdown_requested, collect_i, result_flows,
                    stats_pc, statsWorkerVars, notStatsVars >>

\* run_worker_thread: gen.initialize(config), its result ignored
StatsWorkerInitialize(t) ==
    /\ stats_pc[t] = "initialize"
    /\ \E o \in FlowGenerator_initialize(stats_gen[t], WorkerConfig) :
         /\ stats_gen' = [stats_gen EXCEPT ![t] = o.gen]
         /\ stats_pc' = [stats_pc EXCEPT
                            ![t] = IF o.ret = "throw" THEN "catch" ELSE "loop"]
         /\ exit_path' = [exit_path EXCEPT
                            ![t] = IF o.ret = "throw" THEN "exception" ELSE @]
    /\ UNCHANGED << statsOptions, m_shutdown_requested, statsMainVars,
                    stats_flow, m_thread_buffers, m_flows_generated, m_done,
                    notStatsVars >>

StatsWorkerNext_ignore_shutdown(t) ==
    /\ stats_pc[t] = "loop"
    /\ \E o \in FlowGenerator_next(stats_gen[t]) :
         /\ stats_gen' = [stats_gen EXCEPT ![t] = o.gen]
         /\ IF ~o.ok
            THEN /\ stats_pc' = [stats_pc EXCEPT ![t] = "signal"]
                 /\ exit_path' = [exit_path EXCEPT
                        ![t] = IF stats_gen[t].initialized_ THEN "stop"
                                                             ELSE "not_initialized"]
                 /\ UNCHANGED stats_flow
            ELSE /\ stats_pc' = [stats_pc EXCEPT ![t] = "store"]
                 /\ stats_flow' = [stats_flow EXCEPT ![t] = o.flow]
                 /\ UNCHANGED exit_path
    /\ UNCHANGED << statsOptions, m_shutdown_requested, statsMainVars,
                    m_thread_buffers, m_flows_generated, m_done, notStatsVars >>

\* while (gen.next(flow)) and the shutdown check that opens the loop body
StatsWorkerNext(t) ==
    /\ stats_pc[t] = "loop"
    /\ \E o \in FlowGenerator_next(stats_gen[t]) :
         /\ stats_gen' = [stats_gen EXCEPT ![t] = o.gen]
         /\ IF ~o.ok
            THEN /\ stats_pc' = [stats_pc EXCEPT ![t] = "signal"]
                 /\ exit_path' = [exit_path EXCEPT
                        ![t] = IF stats_gen[t].initialized_ THEN "stop"
                                                             ELSE "not_initialized"]
                 /\ UNCHANGED stats_flow
            ELSE IF m_shutdown_requested
            THEN /\ stats_pc' = [stats_pc EXCEPT ![t] = "signal"]
                 /\ exit_path' = [exit_path EXCEPT ![t] = "shutdown"]
                 /\ stats_flow' = [stats_flow EXCEPT ![t] = o.flow]
            ELSE /\ stats_pc' = [stats_pc EXCEPT ![t] = "store"]
                 /\ stats_flow' = [stats_flow EXCEPT ![t] = o.flow]
                 /\ UNCHANGED exit_path
    /\ UNCHANGED << statsOptions, m_shutdown_requested, statsMainVars,
                    m_thread_buffers, m_flows_generated, m_done, notStatsVars >>

\* the rest of the loop body: enhance_flow, buffer.m_flows.push_back, counters
StatsWorkerStore(t) ==
    /\ stats_pc[t] = "store"
    /\ m_thread_buffers' = [m_thread_buffers EXCEPT
          ![t] = Append(@, EnhancedFlowRecord(t + 1, stats_flow[t].timestamp))]
    /\ m_flows_generated' = [m_flows_generated EXCEPT ![t] = @ + 1]
    /\ stats_pc' = [stats_pc EXCEPT ![t] = "loop"]
    /\ UNCHANGED << statsOptions, m_shutdown_requested, statsMainVars,
                    stats_gen, stats_flow, m_done, exit_path, notStatsVars >>

\* push_back raises std::bad_alloc: the try block is left, nothing appended
StatsWorkerThrows(t) ==
    /\ stats_pc[t] = "store"
    /\ stats_pc' = [stats_pc EXCEPT ![t] = "catch"]
    /\ exit_path' = [exit_path EXCEPT ![t] = "exception"]
    /\ UNCHANGED << statsOptions, m_shutdown_requested, statsMainVars,
                    stats_gen, stats_flow, m_thread_buffers, m_flows_generated,
                    m_done, notStatsVars >>

\* after the loop: thread_data.m_done.store(true)
StatsWorkerSignal(t) ==
    /\ stats_pc[t] = "signal"
    /\ m_done' = [m_done EXCEPT ![t] = TRUE]
    /\ stats_pc' = [stats_pc EXCEPT ![t] = "exit"]
    /\ UNCHANGED << statsOptions, m_shutdown_requested, statsMainVars,
                    stats_gen, stats_flow, m_thread_buffers, m_flows_generated,
                    exit_path, notStatsVars >>

StatsWorkerCatch_no_store(t) ==
    /\ stats_pc[t] = "catch"
    /\ stats_pc' = [stats_pc EXCEPT ![t] = "exit"]
    /\ UNCHANGED << statsOptions, m_shutdown_requested, statsMainVars,
                    stats_gen, stats_flow, m_thread_buffers, m_flows_generated,
                    m_done, exit_path, notStatsVars >>

\* the catch block: the message on std::cerr, thread_data.m_done.store(true)
StatsWorkerCatch(t) ==
    /\ stats_pc[t] = "catch"
    /\ m_done' = [m_done EXCEPT ![t] = TRUE]
    /\ stats_pc' = [stats_pc EXCEPT ![t] = "exit"]
    /\ UNCHANGED << statsOptions, m_shutdown_requested, statsMainVars,
                    stats_gen, stats_flow, m_thread_buffers, m_flows_generated,
                    exit_path, notStatsVars >>

StatsWorker(t) ==
    \/ StatsWorkerInitialize(t)
    \/ StatsWorkerNext(t)
    \/ StatsWorkerStore(t)
    \/ StatsWorkerThrows(t)
    \/ StatsWorkerSignal(t)
    \/ StatsWorkerCatch(t)

StatsMain ==
    \/ \E t \in StatsThreads : StatsStartThread(t)
    \/ StatsCollectWait
    \/ StatsCollectBuffer
    \/ StatsCollectSort
    \/ StatsCollectThrows
    \/ StatsWaitForCompletion

NextStats == StatsMain \/ \E t \in StatsThreads : StatsWorker(t)

SpecStats == InitStats /\ [][NextStats]_vars

\* every started thread and the main thread are scheduled again and again
FairSpecStats ==
    /\ SpecStats
    /\ \A t \in StatsThreads : WF_vars(StatsWorker(t))
    /\ WF_vars(StatsMain)

(***************************************************************************)
(* SpecRandom: the threads of GeneratorWorker::run draw from the one       *)
(* utils::Random::instance().  A draw is dist(gen_): it reads the state of *)
(* the std::mt19937_64 member and writes the advanced state back.          *)
(***************************************************************************)
MaxDraws == 3

InitRandom ==
    /\ FlowdumpIdle
    /\ EngineIdle
    /\ StatsIdle
    /\ UtilIdle

\* generator.next() reaches Random::randint / uniform: a draw begins
RandomCall(w) ==
    /\ rand_pc[w] = "idle"
    /\ rand_draws[w] < MaxDraws
    /\ rand_pc' = [rand_pc EXCEPT ![w] = "draw"]
    /\ UNCHANGED << gen_, rand_local, rand_draws, fn_in, fn_out,
                    flowdumpVars, engineVars, statsVars >>

\* dist(gen_) reads the state of gen_
RandomLoad(w) ==
    /\ rand_pc[w] = "draw"
    /\ rand_local' = [rand_local EXCEPT ![w] = gen_]
    /\ rand_pc' = [rand_pc EXCEPT ![w] = "loaded"]
    /\ UNCHANGED << gen_, rand_draws, fn_in, fn_out,
                    flowdumpVars, engineVars, statsVars >>

\* dist(gen_) writes the advanced state and the draw returns
RandomStore(w) ==
    /\ rand_pc[w] = "loaded"
    /\ gen_' = rand_local[w] + 1
    /\ rand_draws' = [rand_draws EXCEPT ![w] = @ + 1]
    /\ rand_pc' = [rand_pc EXCEPT ![w] = "idle"]
    /\ UNCHANGED << rand_local, fn_in, fn_out,
                    flowdumpVars, engineVars, statsVars >>

NextRandom ==
    \E w \in Workers : RandomCall(w) \/ RandomLoad(w) \/ RandomStore(w)

SpecRandom == InitRandom /\ [][NextRandom]_vars

(***************************************************************************)
(* SpecUtils: the address utilities, the pattern generators, the stats     *)
(* synthesis and FlowFormatter::sort_flows as functions.  Init draws one   *)
(* call with its arguments; each action applies the function called.       *)
(*                                                                         *)
(* A uint32_t is the pair << hi, lo >> of its 16-bit halves, value         *)
(* hi * 65536 + lo, so that every bit of an address is kept.               *)
(***************************************************************************)
Half == 65536
U32Zero == << 0, 0 >>
U32One == << 0, 1 >>
U32Max == << Half - 1, Half - 1 >>

\* x + y and x - y in uint32_t arithmetic (modulo 2^32)
U32Add(x, y) ==
    << (x[1] + y[1] + ((x[2] + y[2]) \div Half)) % Half, (x[2] + y[2]) % Half >>
U32Sub(x, y) ==
    << (x[1] - y[1] - (IF x[2] < y[2] THEN 1 ELSE 0)) % Half,
       (x[2] - y[2]) % Half >>
U32LessEq(x, y) == x[1] < y[1] \/ (x[1] = y[1] /\ x[2] <= y[2])

\* x << n for 0 <= n < 32: the bits shifted beyond bit 31 are dropped
U32Shl(x, n) ==
    IF n < 16
    THEN << (x[1] % 2^(16 - n)) * 2^n + (x[2] * 2^n) \div Half,
            (x[2] % 2^(16 - n)) * 2^n >>
    ELSE << (x[2] % 2^(32 - n)) * 2^(n - 16), 0 >>

\* a & b on 16-bit halves, bit by bit
RECURSIVE BitAnd(_, _)
BitAnd(a, b) ==
    IF a = 0 \/ b = 0 THEN 0
    ELSE (a % 2) * (b % 2) + 2 * BitAnd(a \div 2, b \div 2)
U32And(x, y) == << BitAnd(x[1], y[1]), BitAnd(x[2], y[2]) >>

\* a subnet string: "a.b.c.d/p" or the bare "a.b.c.d"
CidrString(octets, p) == [octets |-> octets, slash |-> TRUE, prefix |-> p]
BareString(octets) == [octets |-> octets, slash |-> FALSE, prefix |-> 0]

\* ip_str_to_uint32 on octets in 0..255: the octets shifted and or-ed; a
\* string without exactly four octets throws
ip_str_to_uint32(octets) ==
    IF Len(octets) # 4 THEN [ret |-> "throw", ip |-> U32Zero]
    ELSE [ret |-> "ok",
          ip |-> << octets[1] * 256 + octets[2], octets[3] * 256 + octets[4] >>]

parse_subnet_no_mask(subnet) ==
    IF Len(subnet.octets) # 4
    THEN [ret |-> "throw", base_ip |-> << 0, 0 >>, host_count |-> << 0, 0 >>]
    ELSE IF ~subnet.slash
    THEN [ret |-> "ok",
          base_ip |-> << subnet.octets[1] * 256 + subnet.octets[2],
                         subnet.octets[3] * 256 + subnet.octets[4] >>,
          host_count |-> << 0, 1 >>]
    ELSE IF subnet.prefix < 0 \/ subnet.prefix > 32
    THEN [ret |-> "throw", base_ip |-> << 0, 0 >>, host_count |-> << 0, 0 >>]
    ELSE [ret |-> "ok",
          base_ip |-> << subnet.octets[1] * 256 + subnet.octets[2],
                         subnet.octets[3] * 256 + subnet.octets[4] >>,
          host_count |-> IF subnet.prefix = 0 THEN << 65535, 65535 >>
                         ELSE IF subnet.prefix > 16
                         THEN << 0, 2^(32 - subnet.prefix) >>
                         ELSE << 2^(16 - subnet.prefix), 0 >>]

\* utils::parse_subnet: [ret, base_ip, host_count]
parse_subnet(subnet) ==
    IF ip_str_to_uint32(subnet.octets).ret = "throw"
    THEN [ret |-> "throw", base_ip |-> U32Zero, host_count |-> U32Zero]
    ELSE IF ~subnet.slash
    THEN [ret |-> "ok", base_ip |-> ip_str_to_uint32(subnet.octets).ip,
          host_count |-> U32One]
    ELSE IF subnet.prefix < 0 \/ subnet.prefix > 32
    THEN [ret |-> "throw", base_ip |-> U32Zero, host_count |-> U32Zero]
    ELSE LET base_ip == ip_str_to_uint32(subnet.octets).ip
             host_bits == 32 - subnet.prefix
             host_count == IF host_bits >= 32 THEN U32Max
                                              ELSE U32Shl(U32One, host_bits)
             mask == IF subnet.prefix = 0 THEN U32Zero
                                          ELSE U32Shl(U32Max, host_bits)
         IN  [ret |-> "ok", base_ip |-> U32And(base_ip, mask),
              host_count |-> host_count]

\* the int a uint32_t argument of Random::randint becomes is negative
NegativeAsInt(x) == x[1] >= Half \div 2

\* Random::randint(1, max) for a uint32_t max: the least, the greatest and
\* one further value of the range; with max below 1 as an int the
\* distribution is used outside its precondition and any value may come back
randint_1_to(max) ==
    IF NegativeAsInt(max)
    THEN {U32Zero, U32One, U32Max, U32Sub(U32Max, U32One)}
    ELSE {U32One, max} \cup {o \in {<< 0, 2 >>} : U32LessEq(o, max)}

\* utils::random_ipv4_uint32 for a subnet string that is not empty
random_ipv4_uint32(subnet) ==
    LET parsed == parse_subnet(subnet)
    IN  IF parsed.ret = "throw" THEN {[ret |-> "throw", ip |-> U32Zero]}
        ELSE IF U32LessEq(parsed.host_count, << 0, 2 >>)
        THEN {[ret |-> "ok", ip |-> U32Add(parsed.base_ip, U32One)]}
        ELSE {[ret |-> "ok", ip |-> U32Add(parsed.base_ip, offset)] :
                 offset \in randint_1_to(U32Sub(parsed.host_count, << 0, 2 >>))}

\* Protocol constants
PROTO_ICMP == 1
PROTO_TCP == 6
PROTO_UDP == 17

\* Random::randint(min, max) on small ranges: the least and the greatest
\* value; with min > max the distribution is used outside its precondition
\* and any value may come back
randint(min, max) == IF min <= max THEN {min, max} ELSE {0, min, max, Half - 1}
random_port(min, max) == randint(min, max)
random_packet_size(min, max) == randint(min, max)

\* what a generate() call decides besides the addresses and the timestamp
PatternFields(protocol, source_port, destination_port, packet_length) ==
    [protocol |-> protocol, source_port |-> source_port,
     destination_port |-> destination_port, packet_length |-> packet_length]

\* <Class>Pattern::generate: the fields every outcome of the draws gives
PatternGenerate(pattern, min_pkt_size, max_pkt_size) ==
    LET src_ports == random_port(49152, 65535)
        Fields(protocols, dst_ports, lengths) ==
            {PatternFields(pr, sp, dp, len) :
                pr \in protocols, sp \in src_ports, dp \in dst_ports,
                len \in lengths}
    IN  CASE pattern = "RandomPattern" ->
               Fields({PROTO_TCP, PROTO_UDP}, random_port(1, 65535),
                      random_packet_size(min_pkt_size, max_pkt_size))
          [] pattern = "WebPattern" ->
               Fields({PROTO_TCP}, {443, 80},
                      random_packet_size(64, 200)
                          \cup random_packet_size(500, max_pkt_size))
          [] pattern = "DnsPattern" ->
               Fields({PROTO_UDP}, {53}, random_packet_size(64, 512))
          [] pattern = "SshPattern" ->
               Fields({PROTO_TCP}, {22}, random_packet_size(100, 400))
          [] pattern = "DatabasePattern" ->
               Fields({PROTO_TCP}, {3306, 5432, 27017, 6379},
                      random_packet_size(64, 300)
                          \cup random_packet_size(500, max_pkt_size))
          [] pattern = "SmtpPattern" ->
               Fields({PROTO_TCP}, {25, 587, 465},
                      random_packet_size(200, max_pkt_size))
          [] pattern = "FtpPattern" ->
               Fields({PROTO_TCP}, {20}, random_packet_size(1000, max_pkt_size))
                   \cup Fields({PROTO_TCP}, {21}, random_packet_size(64, 500))

\* FlowGenerator::next after pattern->generate: in bidirectional mode
\* "random" the ports (and addresses) are swapped when the draw r in [0, 1)
\* is below bidirectional_probability
swap_ports(flow) ==
    [flow EXCEPT !.source_port = flow.destination_port,
                 !.destination_port = flow.source_port]
apply_bidirectional(cfg, flow) ==
    IF cfg.bidirectional_mode # "random" \/ cfg.bidirectional_probability <= 0
    THEN {flow}
    ELSE IF cfg.bidirectional_probability >= 100 THEN {swap_ports(flow)}
    ELSE {flow, swap_ports(flow)}

\* the fields of the records next() may emit first for a configuration:
\* initialize, select_pattern, generate, the bidirectional swap
next_fields(cfg) ==
    UNION { UNION { UNION { apply_bidirectional(cfg, flow) :
                               flow \in PatternGenerate(o.gen.pattern_generators_[i],
                                                        cfg.min_packet_size,
                                                        cfg.max_packet_size) } :
                       i \in select_pattern(o.gen) } :
              o \in {o \in FlowGenerator_initialize(FlowGenerator, cfg) :
                        o.ret = "true"} }

\* std::max(64, std::min(1500, pkt_size))
clamp_packet_size(pkt_size) ==
    IF pkt_size < 64 THEN 64 ELSE IF pkt_size > 1500 THEN 1500 ELSE pkt_size

\* generate_flow_stats, packet count: the range drawn from
packet_count_range(protocol, dst_port) ==
    IF protocol = 6
    THEN IF dst_port \in {80, 443} THEN << 10, 50 >>
         ELSE IF dst_port = 22 THEN << 100, 500 >>
         ELSE IF dst_port \in {3306, 5432, 27017, 6379} THEN << 5, 100 >>
         ELSE IF dst_port \in {25, 587, 465} THEN << 10, 50 >>
         ELSE << 5, 100 >>
    ELSE IF protocol = 17
    THEN IF dst_port = 53 THEN << 2, 2 >> ELSE << 1, 20 >>
    ELSE << 1, 10 >>

\* generate_flow_stats, duration: the range inter_packet_time_us is drawn
\* from (for DNS the range of the whole duration, in microseconds) in the
\* flowdump and in the flowstats copy of the function
inter_packet_time_us_range(impl, protocol, dst_port) ==
    IF protocol = 6
    THEN IF dst_port \in {80, 443} THEN << 10000, 100000 >>
         ELSE IF dst_port = 22 THEN << 1000, 50000 >>
         ELSE IF dst_port \in {3306, 5432, 27017, 6379} THEN << 1000, 20000 >>
         ELSE << 5000, 50000 >>
    ELSE IF protocol = 17
    THEN IF dst_port = 53 THEN << 1000, 50000 >> ELSE << 100, 10000 >>
    ELSE IF impl = "flowdump" THEN << 1000, 20000 >> ELSE << 1000, 10000 >>

\* generate_flow_stats(avg_packet_size, protocol, dst_port) of flowdump or
\* flowstats.  duration_us is duration_ns / 1000 (every branch but DNS
\* multiplies microseconds by 1000); byte_count is given for every packet at
\* the least and for every packet at the greatest size.
generate_flow_stats(impl, avg_packet_size, protocol, dst_port) ==
    LET counts == packet_count_range(protocol, dst_port)
        range == inter_packet_time_us_range(impl, protocol, dst_port)
        variance == avg_packet_size \div 5
    IN  { [packet_count |-> packet_count,
           byte_count |-> packet_count * clamp_packet_size(avg_packet_size + offset),
           duration_us |-> IF packet_count = 1 THEN 0
                           ELSE IF protocol = 17 /\ dst_port = 53 THEN drawn
                           ELSE (packet_count - 1) * drawn,
           drawn_from |-> IF packet_count = 1 THEN << 0, 0 >> ELSE range] :
            packet_count \in randint(counts[1], counts[2]),
            offset \in randint(-variance, variance),
            drawn \in randint(range[1], range[2]) }

\* enhance_flow: the basic flow with the synthesized statistics
enhance_flow(impl, basic_flow) ==
    { [protocol |-> basic_flow.protocol,
       source_port |-> basic_flow.source_port,
       destination_port |-> basic_flow.destination_port,
       packet_count |-> stats.packet_count,
       byte_count |-> stats.byte_count,
       duration_us |-> stats.duration_us] :
        stats \in generate_flow_stats(impl, basic_flow.packet_length,
                                      basic_flow.protocol,
                                      basic_flow.destination_port) }

\* std::stoi on a token of decimal digits
RECURSIVE stoi(_)
stoi(token) ==
    IF token = << >> THEN 0
    ELSE 10 * stoi(SubSeq(token, 1, Len(token) - 1)) + token[Len(token)]

\* operator<< of an unsigned value: its decimal digits, no leading zero
RECURSIVE DecimalDigits(_)
DecimalDigits(n) ==
    IF n < 10 THEN << n >> ELSE Append(DecimalDigits(n \div 10), n % 10)

\* ip_str_to_uint32 on a string, given as its tokens between the dots, each
\* token a sequence of digits: std::getline and std::stoi, then the shifts
ip_str_to_uint32_of(ip_str) ==
    ip_str_to_uint32([i \in 1..Len(ip_str) |-> stoi(ip_str[i])])

uint32_to_ip_str_reversed(ip) ==
    << DecimalDigits(ip[2] % 256), DecimalDigits(ip[2] \div 256),
       DecimalDigits(ip[1] % 256), DecimalDigits(ip[1] \div 256) >>

\* uint32_to_ip_str: (ip >> 24) & 0xFF, (ip >> 16) & 0xFF, (ip >> 8) & 0xFF
\* and ip & 0xFF, printed in decimal with dots between
uint32_to_ip_str(ip) ==
    << DecimalDigits(ip[1] \div 256), DecimalDigits(ip[1] % 256),
       DecimalDigits(ip[2] \div 256), DecimalDigits(ip[2] % 256) >>

\* Random::uniform(0.0, total) on a grid of half units: the draws 0, 1/2, 1,
\* ... below total, each given as twice its value; uniform(0.0, 0.0) is 0
uniform_0_to(total) == IF total = 0 THEN {0} ELSE 0..(2 * total - 1)

\* the loop of weighted_choice for the draw r (twice its value in r2): the
\* first index with r <= cumsum, or the last index when the loop ends
first_cumsum_reaching(weights, r2) ==
    SetMin({i \in 1..Len(weights) : r2 <= 2 * SumSeq(SubSeq(weights, 1, i))}
           \cup {Len(weights)})

\* utils::weighted_choice: the outcomes [ret, item, r2]
weighted_choice(items, weights) ==
    IF items = << >> THEN {[ret |-> "throw", r2 |-> 0, item |-> "none"]}
    ELSE IF weights # << >> /\ Len(weights) # Len(items)
    THEN {[ret |-> "throw", r2 |-> 0, item |-> "none"]}
    ELSE IF weights = << >>
    THEN {[ret |-> "ok", r2 |-> 0, item |-> items[idx + 1]] :
             idx \in randint(0, Len(items) - 1)}
    ELSE {[ret |-> "ok", r2 |-> r2,
           item |-> items[first_cumsum_reaching(weights, r2)]] :
             r2 \in uniform_0_to(SumSeq(weights))}

\* ProgressTracker (flowstats): per-thread timestamps, all initialised to
\* start_ts by the constructor
ProgressTracker(start_ts, end_ts) ==
    [start |-> start_ts, end |-> end_ts,
     m_thread_current_timestamps |-> [t \in StatsThreads |-> start_ts]]

\* a thread_id outside the vector is ignored
update_timestamp(tracker, thread_id, current_ts) ==
    IF thread_id \in StatsThreads
    THEN [tracker EXCEPT !.m_thread_current_timestamps[thread_id] = current_ts]
    ELSE tracker

RECURSIVE apply_updates(_, _)
apply_updates(tracker, updates) ==
    IF updates = << >> THEN tracker
    ELSE apply_updates(update_timestamp(tracker, Head(updates)[1], Head(updates)[2]),
                       Tail(updates))

\* the slowest thread's timestamp, starting the scan from end_ts
get_current_timestamp(tracker) ==
    SetMin({tracker.end} \cup
           {tracker.m_thread_current_timestamps[t] : t \in StatsThreads})

\* the percentage as the exact fraction num / den; the division is reached
\* only with start < min_ts < end, where end - start does not wrap
get_progress_percentage_always_divides(tracker) ==
    LET min_ts == get_current_timestamp(tracker)
    IN  [num |-> (min_ts - tracker.start) * 100, den |-> tracker.end - tracker.start]

get_progress_percentage(tracker) ==
    LET min_ts == get_current_timestamp(tracker)
    IN  IF min_ts >= tracker.end THEN [num |-> 100, den |-> 1]
        ELSE IF min_ts <= tracker.start THEN [num |-> 0, den |-> 1]
        ELSE [num |-> (min_ts - tracker.start) * 100,
              den |-> tracker.end - tracker.start]

\* Percentages and draws on a grid of 0.005: Percent(p) is p percent
Percent(p) == 200 * p

\* the percentage check of GeneratorConfig::validate on that grid:
\* std::abs(total_percentage - 100.0) > 0.01 rejects
percentages_accepted(percentages) ==
    LET total_percentage == SumSeq(percentages)
        diff == total_percentage - Percent(100)
    IN  ~((IF diff < 0 THEN -diff ELSE diff) > 2)

\* the loop of FlowGenerator::select_pattern for the draw r: idx stays at
\* the first pattern unless some cumsum reaches r (indices from 1 here)
select_pattern_loop(pattern_weights, r) ==
    LET reaching == {i \in 1..Len(pattern_weights) :
                        r <= SumSeq(SubSeq(pattern_weights, 1, i))}
    IN  IF reaching = {} THEN 1 ELSE SetMin(reaching)

\* Random::uniform(0.0, 100.0): the draws of [0, 100) offered
PatternDraws ==
    {0, 1, Percent(50) - 1, Percent(50), Percent(50) + 1,
     Percent(100) - 3, Percent(100) - 2, Percent(100) - 1}

\* the calls offered
UtilPercentages ==
    {0, 1, 2, Percent(50) - 2, Percent(50) - 1, Percent(50), Percent(50) + 1,
     Percent(100) - 3, Percent(100) - 2, Percent(100) - 1, Percent(100),
     Percent(100) + 1, Percent(100) + 2, Percent(100) + 3}
UtilMixes ==
    {m \in UNION { [1..n -> UtilPercentages] : n \in 1..3 } : percentages_accepted(m)}
MaxTs == 3
MaxUpdates == 2
UtilUpdates ==
    UNION { [1..n -> (StatsThreads \cup {2}) \X (0..MaxTs)] : n \in 0..MaxUpdates }

MaxWeight == 2
UtilItems == { << >>, << "a" >>, << "a", "b" >>, << "a", "b", "c" >> }
UtilWeights == UNION { [1..n -> 0..MaxWeight] : n \in 0..3 }
UtilTokens == { << 0 >>, << 9 >>, << 1, 0 >>, << 1, 0, 0 >>, << 2, 5, 5 >> }
UtilIpStrings == [1..4 -> UtilTokens]
UtilHalves == {0, 1, 255, 256, 2570, Half - 1}
UtilOctets == { << 192, 168, 1, 77 >>, << 10, 0, 0, 5 >>, << 255, 255, 255, 255 >> }
UtilSubnets ==
    {CidrString(o, pl) : o \in UtilOctets, pl \in 0..32}
        \cup {BareString(o) : o \in UtilOctets}
        \cup {CidrString(<< 10, 0, 0, 5 >>, 33), BareString(<< 10, 0, 5 >>)}
UtilTags == {"random", "web_traffic", "dns_traffic", "ssh_traffic",
             "database_traffic", "smtp_traffic", "ftp_traffic"}
UtilConfigs ==
    {[BaseConfig EXCEPT !.traffic_patterns = << TrafficPattern(tag, 100) >>,
                        !.min_packet_size = sizes[1],
                        !.max_packet_size = sizes[2],
                        !.bidirectional_mode = mode[1],
                        !.bidirectional_probability = mode[2]] :
        tag \in UtilTags,
        sizes \in {<< 64, 1500 >>, << 128, 1500 >>, << 64, 300 >>},
        mode \in {<< "none", 50 >>, << "random", 50 >>, << "random", 0 >>}}
        \cup {BaseConfig, [BaseConfig EXCEPT !.min_packet_size = 1501]}
MaxChunk == 3
UtilRecords == {EnhancedFlowRecord(sid, ts) : sid \in Workers, ts \in {0, 1}}
UtilChunks ==
    UNION { {c \in [1..n -> UtilRecords] :
                \A i, j \in 1..n : i # j => c[i] # c[j]} : n \in 0..MaxChunk }
UtilStatsCalls ==
    {[avg_packet_size |-> avg, protocol |-> pr, dst_port |-> dp, impl |-> impl] :
        impl \in {"flowdump", "flowstats"}, avg \in {64, 800, 1500},
        pr \in {PROTO_ICMP, PROTO_TCP, PROTO_UDP, 47},
        dp \in {0, 22, 53, 80, 3306, 25, 49152}}

InitUtils ==
    /\ FlowdumpIdle
    /\ EngineIdle
    /\ StatsIdle
    /\ rand_pc = [w \in Workers |-> "idle"]
    /\ gen_ = 0
    /\ rand_local = [w \in Workers |-> 0]
    /\ rand_draws = [w \in Workers |-> 0]
    /\ fn_in \in {[op |-> "parse_subnet", subnet |-> sn] : sn \in UtilSubnets}
            \cup {[op |-> "random_ipv4_uint32", subnet |-> sn] : sn \in UtilSubnets}
            \cup {[config |-> cfg, op |-> "next"] : cfg \in UtilConfigs}
            \cup {[flows |-> c, op |-> "sort_flows"] : c \in UtilChunks}
            \cup {[op |-> "generate_flow_stats", args |-> a] : a \in UtilStatsCalls}
            \cup {[op |-> "ipv4_parse_format", str |-> str] : str \in UtilIpStrings}
            \cup {[weights |-> w, op |-> "weighted_choice", items |-> it] :
                      it \in UtilItems, w \in UtilWeights}
            \cup {[ip |-> << hi, lo >>, op |-> "ipv4_format_parse"] :
                      hi \in UtilHalves, lo \in UtilHalves}
            \cup {[op |-> "select_pattern", pattern_weights |-> m] : m \in UtilMixes}
            \cup {[op |-> "get_progress_percentage", start_ts |-> s, end_ts |-> e,
                   updates |-> u] :
                      s \in 0..MaxTs, e \in 0..MaxTs, u \in UtilUpdates}
    /\ fn_out = [op |-> "none"]

utilRest == << randomVars, flowdumpVars, engineVars, statsVars >>

UtilParseSubnet ==
    /\ fn_in.op = "parse_subnet"
    /\ fn_out.op = "none"
    /\ fn_out' = [result |-> parse_subnet(fn_in.subnet), op |-> "parse_subnet"]
    /\ UNCHANGED << fn_in, utilRest >>

UtilRandomIpv4 ==
    /\ fn_in.op = "random_ipv4_uint32"
    /\ fn_out.op = "none"
    /\ \E r \in random_ipv4_uint32(fn_in.subnet) :
          fn_out' = [result |-> r, op |-> "random_ipv4_uint32"]
    /\ UNCHANGED << fn_in, utilRest >>

\* the first next() of a generator initialized with the configuration
UtilNext ==
    /\ fn_in.op = "next"
    /\ fn_out.op = "none"
    /\ \E flow \in next_fields(fn_in.config) :
          fn_out' = [flow |-> flow, op |-> "next"]
    /\ UNCHANGED << fn_in, utilRest >>

\* GeneratorWorker::enhance_flow / FlowStatsFlows::enhance_flow on that record
UtilEnhanceFlow ==
    /\ fn_out.op = "next"
    /\ \E impl \in {"flowdump", "flowstats"} :
          \E enhanced \in enhance_flow(impl, fn_out.flow) :
              fn_out' = [flow |-> enhanced, op |-> "enhance_flow", impl |-> impl]
    /\ UNCHANGED << fn_in, utilRest >>

UtilGenerateFlowStats ==
    /\ fn_in.op = "generate_flow_stats"
    /\ fn_out.op = "none"
    /\ \E stats \in generate_flow_stats(fn_in.args.impl, fn_in.args.avg_packet_size,
                                        fn_in.args.protocol, fn_in.args.dst_port) :
          fn_out' = [op |-> "generate_flow_stats", stats |-> stats]
    /\ UNCHANGED << fn_in, utilRest >>

UtilSortFlows ==
    /\ fn_in.op = "sort_flows"
    /\ fn_out.op = "none"
    /\ \E sorted \in sort_flows(fn_in.flows) :
          fn_out' = [flows |-> sorted, op |-> "sort_flows"]
    /\ UNCHANGED << fn_in, utilRest >>

\* ip_str_to_uint32 on the string given, or on the string just formatted
UtilIpParse ==
    /\ \/ fn_in.op = "ipv4_parse_format" /\ fn_out.op = "none"
       \/ fn_in.op = "ipv4_format_parse" /\ fn_out.op = "uint32_to_ip_str"
    /\ fn_out' = [result |-> ip_str_to_uint32_of(IF fn_out.op = "none"
                                                 THEN fn_in.str ELSE fn_out.str),
                  op |-> "ip_str_to_uint32"]
    /\ UNCHANGED << fn_in, utilRest >>

\* uint32_to_ip_str on the address given, or on the address just parsed
UtilIpFormat ==
    /\ \/ fn_in.op = "ipv4_format_parse" /\ fn_out.op = "none"
       \/ /\ fn_in.op = "ipv4_parse_format"
          /\ fn_out.op = "ip_str_to_uint32"
          /\ fn_out.result.ret = "ok"
    /\ fn_out' = [op |-> "uint32_to_ip_str",
                  str |-> uint32_to_ip_str(IF fn_out.op = "none"
                                           THEN fn_in.ip ELSE fn_out.result.ip)]
    /\ UNCHANGED << fn_in, utilRest >>

\* select_pattern of a generator initialized with an accepted mix
UtilSelectPattern ==
    /\ fn_in.op = "select_pattern"
    /\ fn_out.op = "none"
    /\ \E r \in PatternDraws :
          fn_out' = [result |-> [idx |-> select_pattern_loop(fn_in.pattern_weights, r),
                                 r |-> r],
                     op |-> "select_pattern"]
    /\ UNCHANGED << fn_in, utilRest >>

\* the display thread reads the progress after the workers' updates
UtilGetProgress ==
    /\ fn_in.op = "get_progress_percentage"
    /\ fn_out.op = "none"
    /\ LET tracker == apply_updates(ProgressTracker(fn_in.start_ts, fn_in.end_ts),
                                    fn_in.updates)
       IN  fn_out' = [result |-> get_progress_percentage(tracker),
                      op |-> "get_progress_percentage",
                      min_ts |-> SetMin({tracker.m_thread_current_timestamps[t] :
                                            t \in StatsThreads})]
    /\ UNCHANGED << fn_in, utilRest >>

UtilWeightedChoice ==
    /\ fn_in.op = "weighted_choice"
    /\ fn_out.op = "none"
    /\ \E r \in weighted_choice(fn_in.items, fn_in.weights) :
          fn_out' = [result |-> r, op |-> "weighted_choice"]
    /\ UNCHANGED << fn_in, utilRest >>

NextUtils ==
    \/ UtilSelectPattern
    \/ UtilGetProgress
    \/ UtilWeightedChoice
    \/ UtilIpParse
    \/ UtilIpFormat
    \/ UtilParseSubnet
    \/ UtilRandomIpv4
    \/ UtilNext
    \/ UtilEnhanceFlow
    \/ UtilGenerateFlowStats
    \/ UtilSortFlows

SpecUtils == InitUtils /\ [][NextUtils]_vars

(***************************************************************************)
(* Properties                                                              *)
(***************************************************************************)
\* the records written to the sink, in the order written
OutputFlows ==
    LET lines == SelectSeq(output_, LAMBDA e : e.kind = "flow")
    IN  [i \in 1..Len(lines) |-> lines[i].flow]

ChunkIdOf(flow) == flow.first_timestamp \div chunker_.chunk_duration_ns_

TimestampsOf(flows) == [i \in 1..Len(flows) |-> flows[i].first_timestamp]

AllProduced == BagSize(pushed) = NumThreads * MaxFlows

\* some record was written after a record of a larger chunk_id
LateRecordWritten ==
    \E i, j \in 1..Len(OutputFlows) :
        i < j /\ ChunkIdOf(OutputFlows[i]) > ChunkIdOf(OutputFlows[j])

\* C1: the records written to the sink are ordered by (chunk_id, sort_key):
\* no record follows a record of a larger chunk_id, and within one chunk_id
\* the records appear in sort-key order.
C1_OutputOrdered ==
    \A i, j \in 1..Len(OutputFlows) :
        i < j =>
            /\ ChunkIdOf(OutputFlows[i]) <= ChunkIdOf(OutputFlows[j])
            /\ ChunkIdOf(OutputFlows[i]) = ChunkIdOf(OutputFlows[j])
                  => ~SortLess(OutputFlows[j], OutputFlows[i])

\* C2: no record is written more often than it was pushed, and when the
\* collector has finished the multiset of records written to the sink equals
\* the multiset of records pushed by all producers.
C2_OutputIsUnionOfProduced ==
    /\ \A x \in SeqRange(OutputFlows) : Count(OutputFlows, x) <= BagCount(pushed, x)
    /\ collector_pc = "end" => BagOfSeq(OutputFlows) = pushed

C2_Witness ==
    /\ collector_pc = "end"
    /\ AllProduced
    /\ Len(OutputFlows) = NumThreads * MaxFlows

\* C3: once the collector has left its receive loop, every producer has
\* reported done and every pushed record has been consumed.
C3_LoopExitOnlyWhenDrained ==
    collector_pc \in {"flush", "footer", "end"} =>
        /\ \A i \in Workers : worker_pc[i] = "done"
        /\ generators_done_ >= NumThreads
        /\ queue_ = <<>>
        /\ consumed = pushed

C3_Witness ==
    /\ collector_pc = "flush"
    /\ AllProduced
    /\ flows_collected_ = NumThreads * MaxFlows

AllWorkersFinished == \A i \in Workers : worker_pc[i] = "done"

\* C4: when every producer thread has finished (quota reached or engine not
\* initialized), the collector eventually terminates; it reaches the footer
\* only from flush_all, flush_all only from the loop's exit test, and the end
\* only from the footer.
C4_CollectorTerminates ==
    /\ AllWorkersFinished ~> (collector_pc = "end")
    /\ [][ /\ collector_pc' = "flush" /\ collector_pc # "flush"
                => collector_pc = "check_empty"
           /\ collector_pc' = "footer" /\ collector_pc # "footer"
                => collector_pc = "flush"
           /\ collector_pc' = "end" /\ collector_pc # "end"
                => collector_pc = "footer" ]_vars

C4_Witness ==
    /\ AllWorkersFinished
    /\ collector_pc = "end"
    /\ main_pc = "exit"
    /\ consumed # NoRecords

\* C5: has_complete_chunk() is true exactly when some buffered record has a
\* chunk_id strictly greater than the tracked oldest chunk_id.
C5_CompleteIffNewerBuffered ==
    has_complete_chunk(chunker_) <=>
        \E k \in DOMAIN chunker_.chunks_ :
            \E i \in 1..Len(chunker_.chunks_[k]) :
                ChunkIdOf(chunker_.chunks_[k][i]) > chunker_.oldest_chunk_id_

C5_Witness ==
    /\ has_complete_chunk(chunker_)
    /\ \E k \in DOMAIN chunker_.chunks_ : k < chunker_.oldest_chunk_id_
    /\ handed # <<>>

\* the scenario's records inserted so far, nothing handed out yet
S5Inserted(n) ==
    /\ chunker_.chunk_duration_ns_ = 10
    /\ TimestampsOf(added) = SubSeq(S5Script, 1, n)
    /\ handed = <<>>

\* the chunk get_complete_chunk would hand out next
OldestChunk ==
    IF chunker_.oldest_chunk_id_ \in DOMAIN chunker_.chunks_
    THEN chunker_.chunks_[chunker_.oldest_chunk_id_] ELSE <<>>

\* C6 as stated: after 0, 5, 10, 12 no chunk is complete; after 25 as well,
\* chunk 0 is complete and holds exactly the records 0 and 5.
C6_Original ==
    /\ S5Inserted(4) => ~has_complete_chunk(chunker_)
    /\ S5Inserted(5) => /\ has_complete_chunk(chunker_)
                        /\ chunker_.oldest_chunk_id_ = 0
                        /\ TimestampsOf(OldestChunk) = <<0, 5>>

\* C6 amended: no chunk is complete after 0 and after 0, 5; chunk 0 is
\* complete from the insertion of 10 on (after 0, 5, 10, after 0, 5, 10, 12
\* and after 0, 5, 10, 12, 25) and holds exactly the records 0 and 5.
C6_Amended ==
    /\ \A n \in 0..2 : S5Inserted(n) => ~has_complete_chunk(chunker_)
    /\ \A n \in 3..5 : S5Inserted(n) => /\ has_complete_chunk(chunker_)
                                       /\ chunker_.oldest_chunk_id_ = 0
                                       /\ TimestampsOf(OldestChunk) = <<0, 5>>

C6_Witness == S5Inserted(5) /\ last_op = "add_flow"

\* the five records of the scenario inserted, then possibly further ones
S5AllInserted ==
    /\ chunker_.chunk_duration_ns_ = 10
    /\ Len(added) >= Len(S5Script)
    /\ SubSeq(TimestampsOf(added), 1, Len(S5Script)) = S5Script

\* C7 as stated: in the scenario, once chunk 0 has been drained, chunk 1 is
\* not complete as long as no further record is inserted.
C7_Original ==
    (S5AllInserted /\ Len(added) = Len(S5Script) /\ TimestampsOf(handed) = <<0, 5>>)
        => ~has_complete_chunk(chunker_)

\* C7 amended: in the scenario, once chunk 0 has been drained chunk 1 is
\* complete at once (record 25 of chunk 2 is buffered) and holds the records
\* 10 and 12; once chunk 1 has been drained too, chunk 2 is complete exactly
\* when a further record with chunk_id >= 3 has been inserted.
C7_Amended ==
    /\ (S5AllInserted /\ TimestampsOf(handed) = <<0, 5>>)
          => /\ has_complete_chunk(chunker_)
             /\ chunker_.oldest_chunk_id_ = 1
             /\ TimestampsOf(OldestChunk) = <<10, 12>>
    /\ (S5AllInserted /\ TimestampsOf(handed) = <<0, 5, 10, 12>>)
          => (has_complete_chunk(chunker_) <=>
                 \E k \in (Len(S5Script) + 1)..Len(added) : ChunkIdOf(added[k]) >= 3)

C7_Witness ==
    /\ S5AllInserted
    /\ TimestampsOf(handed) = <<0, 5, 10, 12>>
    /\ has_complete_chunk(chunker_)

\* C8: the records passed to add_flow are, at any time, exactly those handed
\* out so far together with those still buffered; when the collector has
\* finished, nothing is buffered and every record has been handed out once.
C8_EveryRecordHandedOutOnce ==
    /\ consumed = BagUnion(emitted, BagOfSeq(Flatten(Buffered(chunker_))))
    /\ collector_pc \in {"footer", "end"} =>
          /\ chunk_count(chunker_) = 0
          /\ emitted = consumed

C8_Witness ==
    /\ collector_pc = "end"
    /\ AllProduced
    /\ LateRecordWritten

\* the i-th smallest key of a chunk map
KeyAt(chunks, i) ==
    CHOOSE k \in DOMAIN chunks : Cardinality({j \in DOMAIN chunks : j < k}) = i - 1

\* C9: flush_all returns the buffered chunks in ascending chunk_id order, each
\* with all of its records, and leaves the chunker empty.
C9_FlushAllAscending ==
    [][ last_op' = "flush_all" =>
          /\ Len(ret') = Cardinality(DOMAIN chunker_.chunks_)
          /\ \A i \in 1..Len(ret') :
                ret'[i] = chunker_.chunks_[KeyAt(chunker_.chunks_, i)]
          /\ DOMAIN chunker_'.chunks_ = {}
          /\ ~has_complete_chunk(chunker_') ]_vars

C9_Witness ==
    /\ last_op = "flush_all"
    /\ Len(ret) >= 2
    /\ DOMAIN chunker_.chunks_ = {}

\* C10: in JSON output, once the collector has finished, the last object of
\* the stream has no trailing comma and every other object has one.
C10_JsonCommas ==
    (format_ = "JSON" /\ collector_pc = "end") =>
        LET objects == SelectSeq(output_, LAMBDA e : e.kind = "flow")
        IN  \A i \in 1..Len(objects) : objects[i].comma <=> (i < Len(objects))

\* C11: in JSON output, once the collector has finished, the sink holds a
\* single closed array: its first item is the one opening bracket, its last
\* item is the one closing bracket, and everything between them is an object;
\* this for every option combination and every record count.
C11_JsonSingleClosedArray ==
    (format_ = "JSON" /\ collector_pc = "end") =>
        /\ Len(output_) >= 2
        /\ output_[1].kind = "header" /\ output_[1].flow = "["
        /\ output_[Len(output_)].kind = "footer"
        /\ output_[Len(output_)].flow = "]"
        /\ \A i \in 2..(Len(output_) - 1) : output_[i].kind = "flow"

C13_FailedInitializeKeepsState ==
    (gen_op = "initialize" /\ gen_ret.ret # "true") => gen = gen_before

\* C14: after a call to initialize has failed, next() emits no record until a
\* later initialize succeeds, whether or not the engine had been initialized
\* successfully before the failed call.
C14_NoEmissionAfterFailedInitialize ==
    (gen_op = "next" /\ failed_init) => gen_ret.ret = "false"

\* C15: for one engine instance, the timestamps of any two records emitted by
\* consecutive calls of next() differ by exactly the inter-arrival quantum
\* computed at initialization, and neither next() nor reset() changes the
\* quantum.
C15_ConsecutiveTimestampsDifferByQuantum ==
    /\ \A i \in 1..(Len(emitted_ts) - 1) :
          emitted_ts[i + 1] - emitted_ts[i] = gen.inter_arrival_time_ns_
    /\ gen_op \in {"next", "reset"} =>
          gen.inter_arrival_time_ns_ = gen_before.inter_arrival_time_ns_

\* three records emitted in a row by an engine with a quantum of 640 ns
C15_Witness ==
    /\ Len(emitted_ts) >= 3
    /\ gen.inter_arrival_time_ns_ = 640
    /\ gen_op = "next"
    /\ gen_ret.ret = "true"

C17_RateArithmetic ==
    (gen.config_.bandwidth_gbps = 10 /\ gen.config_.average_packet_size = 800) =>
        /\ gen.flows_per_second_ = 1562500
        /\ gen.inter_arrival_time_ns_ = 640
        /\ Len(first_ts) >= 1 => first_ts[1] = gen.start_timestamp_ns_
        /\ Len(first_ts) >= 2 => first_ts[2] = gen.start_timestamp_ns_ + 640
        /\ Len(first_ts) >= 3 => first_ts[3] = gen.start_timestamp_ns_ + 1280

\* three records emitted from start 100 at 10 Gbps and 800-byte packets
C17_Witness ==
    /\ gen.config_.bandwidth_gbps = 10
    /\ gen.config_.average_packet_size = 800
    /\ gen.start_timestamp_ns_ = 100
    /\ first_ts = <<100, 740, 1380>>

\* the k-th timestamp of a run that starts at the engine's start timestamp
RunTimestamp(k) ==
    gen.start_timestamp_ns_ + (k - 1) * gen.inter_arrival_time_ns_

\* the records emitted since reset() repeat the timestamps of the records
\* emitted after initialization
SameTimestampsAsFirstRun ==
    /\ \A k \in 1..Len(first_ts) : first_ts[k] = RunTimestamp(k)
    /\ \A k \in 1..Len(emitted_ts) : emitted_ts[k] = RunTimestamp(k)

C19_Original ==
    (gen_op = "initialize" /\ gen_arg.bandwidth_gbps <= 0) =>
        gen_ret.ret # "true"

\* the configuration passed to initialize differs from a valid one at most in
\* its two rate fields
OtherwiseValid ==
    gen_arg = [BaseConfig EXCEPT
                  !.bandwidth_gbps = gen_arg.bandwidth_gbps,
                  !.flows_per_second = gen_arg.flows_per_second]

\* C19 (amended): initialize fails (returns false, engine untouched) for every
\* configuration with bandwidth_gbps <= 0 and flows_per_second <= 0, whatever
\* the other fields contain; a configuration with bandwidth_gbps <= 0 and
\* flows_per_second > 0 that is otherwise valid is accepted, and the engine
\* takes flows_per_second as its rate.
C19_Amended ==
    (gen_op = "initialize" /\ gen_arg.bandwidth_gbps <= 0) =>
        /\ gen_arg.flows_per_second <= 0 =>
              gen_ret.ret = "false" /\ gen = gen_before
        /\ (gen_arg.flows_per_second > 0 /\ OtherwiseValid) =>
              /\ gen_ret.ret = "true"
              /\ gen.initialized_
              /\ gen.flows_per_second_ = gen_arg.flows_per_second

\* a configuration without any rate was rejected
C19_Witness ==
    /\ gen_op = "initialize"
    /\ gen_arg.bandwidth_gbps <= 0
    /\ gen_arg.flows_per_second <= 0
    /\ OtherwiseValid
    /\ gen_ret.ret = "false"

\* C20: every started producer thread eventually publishes its done flag, on
\* every exit path: stop predicate tripped, shutdown observed, engine
\* initialization failed, or exception raised.
C20_EveryStartedWorkerPublishesDone ==
    \A t \in StatsThreads : (stats_pc[t] # "idle") ~> m_done[t]

\* one worker left through the catch block, the other observed the shutdown
\* request, and both have published m_done
C20_Witness ==
    /\ exit_path[0] = "exception"
    /\ exit_path[1] = "shutdown"
    /\ m_done[0]
    /\ m_done[1]

\* the collector is reading the buffers: the second loop of collect_results
\* has not yet passed buffer t
BufferBeingRead(t) == stats_main_pc = "collect_merge" /\ collect_i <= t

\* a step of the second loop of collect_results: it reads buffer collect_i
ReadsBuffer == stats_main_pc = "collect_merge" /\ stats_main_pc' # "wait_for_completion"

\* C21: the collector reads the buffer of producer i only after it has seen
\* m_done of producer i; a producer appends nothing after it has published
\* m_done; and no buffer is written while the collector is reading buffers
C21_BufferHandedOverByDone ==
    [][ /\ ReadsBuffer => /\ m_done[collect_i]
                          /\ stats_pc[collect_i] = "exit"
        /\ \A t \in StatsThreads :
              m_thread_buffers'[t] # m_thread_buffers[t] =>
                  /\ ~m_done[t]
                  /\ ~m_done'[t]
                  /\ ~BufferBeingRead(t) ]_vars

\* the collector has read the non-empty buffers of both producers
C21_Witness ==
    /\ stats_main_pc = "collect_sort"
    /\ \A t \in StatsThreads : m_done[t] /\ m_thread_buffers[t] # <<>>
    /\ Len(result_flows) = Len(m_thread_buffers[0]) + Len(m_thread_buffers[1])

\* C22: once m_shutdown_requested is true, the loop iteration a producer
\* starts ends the loop without storing a record; a producer that has seen
\* the request appends nothing more; and every started producer publishes
\* m_done and exits
C22_ShutdownStopsProducers ==
    /\ [][ \A t \in StatsThreads :
             /\ (m_shutdown_requested /\ stats_pc[t] = "loop"
                    /\ stats_pc'[t] # "loop") => stats_pc'[t] = "signal"
             /\ exit_path[t] = "shutdown" =>
                    m_thread_buffers'[t] = m_thread_buffers[t] ]_vars
    /\ \A t \in StatsThreads :
          (m_shutdown_requested /\ stats_pc[t] # "idle")
              ~> (m_done[t] /\ stats_pc[t] = "exit")

\* a producer saw the request before it had generated all of its flows,
\* published m_done and exited
C22_Witness ==
    \E t \in StatsThreads :
        /\ exit_path[t] = "shutdown"
        /\ Len(m_thread_buffers[t]) < MaxStatsFlows
        /\ m_thread_buffers[t] # <<>>
        /\ m_done[t]
        /\ stats_pc[t] = "exit"

\* the records of every buffer, as a bag
AllBuffered == BagOfSeq(m_thread_buffers[0] \o m_thread_buffers[1])

\* C23: a producer that left through the catch block publishes m_done; the
\* collection that returns holds the records of every buffer, those of the
\* producers that raised an exception included; and the collector ends, by
\* returning 1 only after an exception of its own
C23_ProducerExceptionKeepsRecords ==
    /\ [](stats_main_pc = "output_results" =>
             BagOfSeq(result_flows) = AllBuffered)
    /\ [](stats_main_pc = "return_1" => m_shutdown_requested)
    /\ \A t \in StatsThreads :
          (exit_path[t] = "exception") ~>
              (m_done[t] /\ stats_main_pc \in {"output_results", "return_1"})

\* a producer raised an exception after it had stored a record, and the
\* collection returned with that record
C23_Witness ==
    \E t \in StatsThreads :
        /\ exit_path[t] = "exception"
        /\ m_thread_buffers[t] # <<>>
        /\ stats_main_pc = "output_results"
        /\ \E i \in 1..Len(result_flows) : result_flows[i].stream_id = t + 1

\* C24: no two threads execute a draw on the shared engine state at the same
\* time
C24_DrawsSerialised ==
    \A v, w \in Workers :
        (v # w /\ rand_pc[v] # "idle") => rand_pc[w] = "idle"

\* C25: every record the engine emits has min_packet_size <= packet_length
\* <= max_packet_size, for every accepted configuration and class
C25_PacketLengthWithinConfiguredSizes ==
    fn_out.op = "next" =>
        /\ fn_in.config.min_packet_size <= fn_out.flow.packet_length
        /\ fn_out.flow.packet_length <= fn_in.config.max_packet_size

\* the address a subnet string names, the mask of a prefix length (its top
\* p bits set), and the network and broadcast addresses of a.b.c.d/p
SubnetAddress(sn) ==
    << sn.octets[1] * 256 + sn.octets[2], sn.octets[3] * 256 + sn.octets[4] >>
PrefixMask(pl) ==
    IF pl <= 16 THEN << Half - 2^(16 - pl), 0 >>
                ELSE << Half - 1, Half - 2^(32 - pl) >>
NetworkAddress(sn) == U32And(SubnetAddress(sn), PrefixMask(sn.prefix))
BroadcastAddress(sn) ==
    << NetworkAddress(sn)[1] + (Half - 1 - PrefixMask(sn.prefix)[1]),
       NetworkAddress(sn)[2] + (Half - 1 - PrefixMask(sn.prefix)[2]) >>
InSubnet(ip, sn) ==
    IF sn.slash THEN U32And(ip, PrefixMask(sn.prefix)) = NetworkAddress(sn)
                ELSE ip = SubnetAddress(sn)

\* C26: an address generated for a subnet belongs to it, for every prefix
\* length 0 to 32 and for bare addresses, and for a subnet of at least 4
\* addresses it is neither the network nor the broadcast address
C26_GeneratedAddressInSubnet ==
    (fn_out.op = "random_ipv4_uint32" /\ fn_out.result.ret = "ok") =>
        /\ InSubnet(fn_out.result.ip, fn_in.subnet)
        /\ (fn_in.subnet.slash /\ fn_in.subnet.prefix <= 30) =>
              /\ fn_out.result.ip # NetworkAddress(fn_in.subnet)
              /\ fn_out.result.ip # BroadcastAddress(fn_in.subnet)

\* where a record stands in a chunk of distinct records
PositionIn(flows, flow) == CHOOSE i \in 1..Len(flows) : flows[i] = flow

\* C27: sorting a chunk by timestamp is stable: records with equal
\* timestamps come out in the order in which they were added to the chunk
C27_SortByTimestampStable ==
    fn_out.op = "sort_flows" =>
        \A i, j \in 1..Len(fn_out.flows) :
            (i < j /\ fn_out.flows[i].timestamp = fn_out.flows[j].timestamp) =>
                PositionIn(fn_in.flows, fn_out.flows[i])
                    < PositionIn(fn_in.flows, fn_out.flows[j])

\* C28: with the traffic mix [(dns_traffic, 100)] every enhanced record has
\* packet_count = 2, for every valid configuration using that mix
C28_DnsMixPacketCountTwo ==
    (/\ fn_out.op = "enhance_flow"
     /\ fn_in.config.traffic_patterns = << TrafficPattern("dns_traffic", 100) >>)
        => fn_out.flow.packet_count = 2

\* C29: for a protocol other than TCP and UDP and packet_count > 1 the
\* duration is (packet_count - 1) x gap with the gap drawn from 1 ms to
\* 20 ms, in the flowdump and in the flowstats implementation
C29_OtherProtocolGap ==
    (/\ fn_out.op = "generate_flow_stats"
     /\ fn_in.args.protocol \notin {PROTO_TCP, PROTO_UDP}
     /\ fn_out.stats.packet_count > 1)
        => /\ fn_out.stats.drawn_from = << 1000, 20000 >>
           /\ \E gap \in {1000, 10000, 20000} :
                 fn_out.stats.duration_us = (fn_out.stats.packet_count - 1) * gap

\* 2^n as a pair of 16-bit halves, for n up to 32
PowerOfTwo(n) == IF n < 16 THEN << 0, 2^n >> ELSE << 2^(n - 16), 0 >>

\* C30: parse_subnet of a.b.c.d/p returns (a.b.c.d & mask(p), 2^(32-p)) for
\* every p from 0 to 32, and of a bare address (addr, 1)
C30_Original ==
    (fn_out.op = "parse_subnet" /\ fn_out.result.ret = "ok") =>
        IF fn_in.subnet.slash
        THEN /\ fn_out.result.base_ip = NetworkAddress(fn_in.subnet)
             /\ fn_out.result.host_count = PowerOfTwo(32 - fn_in.subnet.prefix)
        ELSE /\ fn_out.result.base_ip = SubnetAddress(fn_in.subnet)
             /\ fn_out.result.host_count = U32One

\* C30, amended: parse_subnet of a.b.c.d/p returns a.b.c.d & mask(p) with
\* 2^(32-p) for p from 1 to 32 and with 2^32 - 1, the greatest 32-bit
\* count, for p = 0; a bare address returns (addr, 1)
C30_Amended ==
    (fn_out.op = "parse_subnet" /\ fn_out.result.ret = "ok") =>
        IF fn_in.subnet.slash
        THEN /\ fn_out.result.base_ip = NetworkAddress(fn_in.subnet)
             /\ fn_out.result.host_count =
                   IF fn_in.subnet.prefix = 0
                   THEN U32Sub(U32Zero, U32One)
                   ELSE PowerOfTwo(32 - fn_in.subnet.prefix)
        ELSE /\ fn_out.result.base_ip = SubnetAddress(fn_in.subnet)
             /\ fn_out.result.host_count = U32One

\* 10.0.0.5/0 has been parsed: base 0.0.0.0 and the saturated count
C30_Witness ==
    /\ fn_out.op = "parse_subnet"
    /\ fn_in.subnet = CidrString(<< 10, 0, 0, 5 >>, 0)
    /\ fn_out.result.ret = "ok"
    /\ fn_out.result.base_ip = U32Zero
    /\ fn_out.result.host_count = U32Max

\* C31: formatting the parsed address of a valid dotted-quad string gives
\* the string back, and parsing the formatted string of a 32-bit value gives
\* the value back
C31_ParseFormatRoundTrip ==
    /\ (fn_in.op = "ipv4_parse_format" /\ fn_out.op = "uint32_to_ip_str") =>
          fn_out.str = fn_in.str
    /\ (fn_in.op = "ipv4_format_parse" /\ fn_out.op = "ip_str_to_uint32") =>
          /\ fn_out.result.ret = "ok"
          /\ fn_out.result.ip = fn_in.ip

\* 10.0.100.255 has gone through parse and format, or the value of
\* 255.255.10.10 through format and parse
C31_Witness ==
    \/ /\ fn_in.op = "ipv4_parse_format"
       /\ fn_in.str = << << 1, 0 >>, << 0 >>, << 1, 0, 0 >>, << 2, 5, 5 >> >>
       /\ fn_out.op = "uint32_to_ip_str"
    \/ /\ fn_in.op = "ipv4_format_parse"
       /\ fn_in.ip = << Half - 1, 2570 >>
       /\ fn_out.op = "ip_str_to_uint32"

\* the index of the item returned (the items offered are distinct)
ChosenIndex == CHOOSE i \in 1..Len(fn_in.items) : fn_in.items[i] = fn_out.result.item

\* C32: weighted pick returns the item whose cumulative weight first exceeds
\* the draw r from [0, total): the item returned has r strictly below its
\* cumulative weight and not below the cumulative weight of the item before
C32_WeightedPickFirstExceeding ==
    (/\ fn_out.op = "weighted_choice"
     /\ fn_out.result.ret = "ok"
     /\ fn_in.weights # << >>
     /\ SumSeq(fn_in.weights) > 0)
        => /\ fn_out.result.r2 < 2 * SumSeq(SubSeq(fn_in.weights, 1, ChosenIndex))
           /\ fn_out.result.r2 >= 2 * SumSeq(SubSeq(fn_in.weights, 1, ChosenIndex - 1))

\* C33: the reported progress is clamp((min_ts - start_ts) / (end_ts -
\* start_ts), 0, 1) of the smallest per-thread timestamp, and it lies between
\* 0 and 100 percent whatever the per-thread timestamps are
ClampedElapsed ==
    IF fn_out.min_ts <= fn_in.start_ts THEN 0
    ELSE IF fn_out.min_ts >= fn_in.end_ts THEN fn_in.end_ts - fn_in.start_ts
    ELSE fn_out.min_ts - fn_in.start_ts

C33_ProgressClamped ==
    fn_out.op = "get_progress_percentage"
        => /\ 0 <= fn_out.result.num
           /\ fn_out.result.num <= 100 * fn_out.result.den
           /\ fn_in.start_ts < fn_in.end_ts
                  => fn_out.result.num * (fn_in.end_ts - fn_in.start_ts)
                         = 100 * fn_out.result.den * ClampedElapsed

C33_Witness ==
    /\ fn_out.op = "get_progress_percentage"
    /\ fn_in.start_ts < fn_out.min_ts
    /\ fn_out.min_ts < fn_in.end_ts
    /\ Len(fn_in.updates) = MaxUpdates
    /\ fn_out.result.num * 2 = 100 * fn_out.result.den

\* C34: when a complete chunk exists, get_complete_chunk returns exactly the
\* records buffered under oldest_chunk_id_, removes them from the buffer and
\* advances oldest_chunk_id_ by one; when nothing is buffered under that id
\* it returns nothing, leaves the buffer alone and advances all the same
C34_GetCompleteChunkHandsOutOldest ==
    [][ (last_op' = "get_complete_chunk" /\ has_complete_chunk(chunker_)) =>
          LET oldest == chunker_.oldest_chunk_id_
              keys   == DOMAIN chunker_.chunks_
          IN  /\ chunker_'.oldest_chunk_id_ = oldest + 1
              /\ oldest \in keys =>
                     /\ ret' = chunker_.chunks_[oldest]
                     /\ DOMAIN chunker_'.chunks_ = keys \ {oldest}
                     /\ \A k \in keys \ {oldest} :
                            chunker_'.chunks_[k] = chunker_.chunks_[k]
              /\ oldest \notin keys =>
                     /\ ret' = <<>>
                     /\ chunker_'.chunks_ = chunker_.chunks_ ]_vars

\* chunk 0 was handed out, then the empty window 1 was skipped
C34_Witness ==
    /\ last_op = "get_complete_chunk"
    /\ ret = <<>>
    /\ TimestampsOf(handed) = <<0, 5>>
    /\ chunker_.oldest_chunk_id_ = 2
    /\ DOMAIN chunker_.chunks_ = {2}

\* C36: whenever records are buffered, oldest_chunk_id_ is no greater than
\* the smallest buffered chunk_id
C36_OldestIsSmallestBuffered ==
    (chunker_.has_oldest_ /\ DOMAIN chunker_.chunks_ # {})
        => chunker_.oldest_chunk_id_ <= SetMin(DOMAIN chunker_.chunks_)

\* C35: for every accepted mix and every draw r, select_pattern returns the
\* first pattern, in mix order, whose cumulative percentage is >= r
CumulativePercentage(i) == SumSeq(SubSeq(fn_in.pattern_weights, 1, i))

C35_SelectFirstReaching ==
    fn_out.op = "select_pattern"
        => /\ CumulativePercentage(fn_out.result.idx) >= fn_out.result.r
           /\ \A j \in 1..(fn_out.result.idx - 1) :
                  CumulativePercentage(j) < fn_out.result.r

\* C37: a configuration that meets every constraint but sets no stop
\* condition (max_flows = 0 and duration_seconds = 0) is accepted by
\* initialize, and every next() of the engine initialized with it emits
C37_NoStopConditionAccepted ==
    /\ (gen_op = "initialize" /\ gen_arg \in NoStopConfigs) => gen_ret.ret = "true"
    /\ (gen_op = "next" /\ gen_before.initialized_
                        /\ gen_before.config_ \in NoStopConfigs)
           => gen_ret.ret = "true"

\* C38: when a total flow count T >= 1 is requested with N threads, the run
\* that ends without shutdown or exception emits exactly T records
C38_TotalFlowsEmitted ==
    (/\ stats_main_pc = "output_results"
     /\ ~m_shutdown_requested
     /\ \A t \in StatsThreads : exit_path[t] \in {"stop", "not_initialized"})
        => \A T \in 1..(Cardinality(StatsThreads) * (MaxStatsFlows + 1)) :
              m_flows_per_thread = FlowStatsFlows_initialize(T, Cardinality(StatsThreads))
                  => Len(result_flows) = T

\* C39: every item pushed to the queue is returned by exactly one try_pop, in
\* push order, under any interleaving of producers and consumer: a push
\* appends at the back, a pop returns and removes the front, nothing else
\* changes the queue (set_done in particular drops nothing), and the items
\* pushed are always those returned so far together with those still queued
C39_QueueFifoExactlyOnce ==
    [][ /\ pushed' = BagUnion(consumed', BagOfSeq(queue_'))
        /\ pushed' # pushed =>
               /\ queue_' # <<>>
               /\ SubSeq(queue_', 1, Len(queue_') - 1) = queue_
               /\ pushed' = BagAdd(pushed, queue_'[Len(queue_')])
               /\ consumed' = consumed
        /\ consumed' # consumed =>
               /\ queue_ # <<>>
               /\ consumed' = BagAdd(consumed, Head(queue_))
               /\ queue_' = Tail(queue_)
               /\ pushed' = pushed
        /\ (pushed' = pushed /\ consumed' = consumed) => queue_' = queue_ ]_vars

\* set_done was called while two items were queued, after a pop
C39_Witness ==
    /\ done_
    /\ Len(queue_) >= 2
    /\ consumed # NoRecords

\* C40: after every insertion the loop of process_complete_chunks ends, after
\* at most (largest buffered chunk_id - oldest_chunk_id_) iterations, each of
\* which advances oldest_chunk_id_ by one; no chunk is complete afterwards
C40_ProcessCompleteChunksBounded ==
    last_op = "add_flow" =>
        LET n == process_complete_chunks_iterations(chunker_)
        IN  /\ n <= SetMax(DOMAIN chunker_.chunks_) - chunker_.oldest_chunk_id_
            /\ \A r \in process_complete_chunks(chunker_) :
                   /\ ~has_complete_chunk(r.ck)
                   /\ r.ck.oldest_chunk_id_ = chunker_.oldest_chunk_id_ + n

\* an insertion after which the loop runs twice: one chunk handed out, one
\* empty window skipped
C40_Witness ==
    /\ last_op = "add_flow"
    /\ process_complete_chunks_iterations(chunker_) = 2
    /\ chunker_.oldest_chunk_id_ \in DOMAIN chunker_.chunks_
    /\ chunker_.oldest_chunk_id_ + 1 \notin DOMAIN chunker_.chunks_

====
